---------------------------- MODULE Spec2Model ----------------------------
(***************************************************************************)
(* A model of sage/geometry/polyhedron/library.py: the projection helpers  *)
(* zero_sum_projection / project_points and the polytope recipes of the    *)
(* class Polytopes, with the arithmetic of the rings the recipes use.      *)
(*                                                                         *)
(* Numbers.  An exact number is (a + b*sqrt(rad)) / d with integers a, b,  *)
(* d > 0 and rad squarefree (rad = 1 and b = 0 for a rational).  An        *)
(* element of the real double field RDF is modelled as a fixed-point       *)
(* number a / Scale, every operation rounding to the nearest multiple of   *)
(* 1 / Scale.                                                              *)
(***************************************************************************)
EXTENDS Integers, Sequences, FiniteSets, TLC

\* ------------------------------------------------------------------ bounds
MaxDim == 4       \* project_points is called with pts of dimension 2..MaxDim
MaxSeeds == 2     \* a seed list handed to the expansion has 0..MaxSeeds seeds
Scale == 1000     \* an RDF number is a multiple of 1 / Scale
MaxGens == 3      \* parallelotope is called with 1..MaxGens generators
MaxN == 3         \* Birkhoff_polytope and permutahedron are called with n in 1..MaxN

\* sample coordinates of the pts handed to project_points
Coords == {-1, 0, 2}

\* ------------------------------------------------------- integer helpers
Abs(n) == IF n < 0 THEN -n ELSE n

Sign(n) == IF n < 0 THEN -1 ELSE IF n = 0 THEN 0 ELSE 1

RECURSIVE GCD(_, _)
GCD(x, y) == IF y = 0 THEN x ELSE GCD(y, x % y)

\* the largest s with s * s <= n, by bisection on lo..hi
RECURSIVE ISqrtIn(_, _, _)
ISqrtIn(n, lo, hi) ==
    IF lo >= hi THEN lo
    ELSE LET mid == (lo + hi + 1) \div 2 IN
         IF mid <= n \div mid THEN ISqrtIn(n, mid, hi) ELSE ISqrtIn(n, lo, mid - 1)

ISqrt(n) == IF n <= 0 THEN 0 ELSE ISqrtIn(n, 1, n)

\* the largest element of a non-empty set of integers
Largest(S) == CHOOSE s \in S : \A t \in S : t <= s

\* the largest s such that s * s divides n (n >= 1)
SquarePart(n) == Largest({s \in 1..ISqrt(n) : n % (s * s) = 0})

\* division rounding to the nearest integer, d > 0
RoundDiv(n, d) == (2 * n + d) \div (2 * d)

\* --------------------------------------------------------- exact numbers
\* (a + b*sqrt(rad)) / d with the fraction cancelled by c and d made positive
NumOver(a, b, d, rad, c) ==
    [a |-> (IF d < 0 THEN -1 ELSE 1) * (a \div c),
     b |-> (IF d < 0 THEN -1 ELSE 1) * (b \div c),
     d |-> Abs(d) \div c, rad |-> rad, fl |-> FALSE]

\* (a + b*sqrt(rad)) / d in lowest terms
NumLowest(a, b, d, rad) == NumOver(a, b, d, rad, GCD(GCD(Abs(a), Abs(b)), Abs(d)))

\* (a + b*sqrt(rad)) / d for a square-free rad: a rational number has
\* b = 0 and rad = 1
NumSquareFree(a, b, d, rad) ==
    IF rad = 1 THEN NumLowest(a + b, 0, d, 1)
    ELSE IF b = 0 THEN NumLowest(a, 0, d, 1)
    ELSE NumLowest(a, b, d, rad)

\* (a + b*sqrt(rad)) / d with the square s * s taken out of the root
NumRoot(a, b, d, rad, s) == NumSquareFree(a, b * s, d, rad \div (s * s))

\* canonical form of (a + b*sqrt(rad)) / d, d # 0, rad >= 1
Num(a, b, d, rad) == NumRoot(a, b, d, rad, SquarePart(rad))

\* the integer n as an exact number
Int2Num(n) == [a |-> n, b |-> 0, d |-> 1, rad |-> 1, fl |-> FALSE]

\* the fixed-point RDF number n / Scale
Flt(n) == [a |-> n, b |-> 0, d |-> Scale, rad |-> 1, fl |-> TRUE]

IsRational(x) == x.b = 0

\* an exact number rounded into RDF
ToFlt(x) ==
    IF x.fl THEN x
    ELSE LET root == IF x.b = 0 THEN 0 ELSE ISqrt(x.rad * Scale * Scale)
         IN  Flt(RoundDiv(x.a * Scale + x.b * root, x.d))

\* x + y
Add(x, y) ==
    IF x.fl \/ y.fl THEN Flt(ToFlt(x).a + ToFlt(y).a)
    ELSE CASE y.b = 0 -> Num(x.a * y.d + y.a * x.d, x.b * y.d, x.d * y.d, x.rad)
           [] x.b = 0 -> Num(x.a * y.d + y.a * x.d, y.b * x.d, x.d * y.d, y.rad)
           [] x.rad = y.rad ->
                 Num(x.a * y.d + y.a * x.d, x.b * y.d + y.b * x.d, x.d * y.d, x.rad)

\* -x
Neg(x) == [x EXCEPT !.a = -x.a, !.b = -x.b]

\* x - y
Sub(x, y) == Add(x, Neg(y))

\* x * y
Mul(x, y) ==
    IF x.fl \/ y.fl THEN Flt(RoundDiv(ToFlt(x).a * ToFlt(y).a, Scale))
    ELSE CASE y.b = 0 -> Num(x.a * y.a, x.b * y.a, x.d * y.d, x.rad)
           [] x.b = 0 -> Num(x.a * y.a, x.a * y.b, x.d * y.d, y.rad)
           [] x.rad = y.rad ->
                 Num(x.a * y.a + x.b * y.b * x.rad, x.a * y.b + x.b * y.a,
                     x.d * y.d, x.rad)
           [] x.a = 0 /\ y.a = 0 -> Num(0, x.b * y.b, x.d * y.d, x.rad * y.rad)

\* x / y, y # 0
Div(x, y) ==
    IF x.fl \/ y.fl
    THEN LET n == ToFlt(x).a
             q == ToFlt(y).a
         IN  Flt(Sign(q) * RoundDiv(n * Scale, Abs(q)))
    ELSE Mul(x, Num(y.d * y.a, -(y.d * y.b), y.a * y.a - y.b * y.b * y.rad, y.rad))

\* the square root of a rational x >= 0: exact, or rounded for an RDF number
Sqrt(x) ==
    IF x.fl
    THEN LET n == x.a * Scale
             s == ISqrt(n)
         IN  Flt(IF (s + 1) * (s + 1) - n < n - s * s THEN s + 1 ELSE s)
    ELSE Num(0, 1, x.d, x.a * x.d)

\* the largest y in lo..hi whose cube is at most n * Scale * Scale
RECURSIVE ICbrtIn(_, _, _)
ICbrtIn(n, lo, hi) ==
    IF lo >= hi THEN lo
    ELSE LET mid == (lo + hi + 1) \div 2 IN
         IF (mid * mid) \div Scale <= (n * Scale) \div mid
         THEN ICbrtIn(n, mid, hi) ELSE ICbrtIn(n, lo, mid - 1)

\* x.cube_root() for an RDF number x > 0
CubeRoot(x) == Flt(ICbrtIn(x.a, 1, x.a + Scale))

\* equality of two numbers (canonical forms are unique)
NumEq(x, y) == x = y

\* ------------------------------------------------------------- vectors
RECURSIVE SumSeq(_)
SumSeq(s) == IF s = <<>> THEN 0 ELSE Head(s) + SumSeq(Tail(s))

RECURSIVE SumNum(_)
SumNum(s) == IF Len(s) = 1 THEN s[1] ELSE Add(s[1], SumNum(Tail(s)))

\* the rings a caller can name; "None" is the absent keyword
RDF == "RDF"
AA == "AA"
QQ == "QQ"
ZZ == "ZZ"
K5 == "QuadraticField(5)"
K2 == "QuadraticField(2)"
None == "None"

\* base_ring(n): the integer n as an element of the ring R
Coerce(R, n) == IF R = RDF THEN Flt(n * Scale) ELSE Int2Num(n)

\* vector(base_ring, p) for a list p of integers
vector(R, p) == [j \in 1..Len(p) |-> Coerce(R, p[j])]

\* v.norm(): the square root of the sum of the squares
norm(v) == Sqrt(SumNum([j \in 1..Len(v) |-> Mul(v[j], v[j])]))

\* a slip in the basis vector: [1]*i + [-1] + [0]*(d-i-1)
BasisList_minus_one(d, i) ==
    [j \in 1..d |-> IF j <= i THEN 1 ELSE IF j = i + 1 THEN -1 ELSE 0]

\* [1]*i + [-i] + [0]*(d-i-1)
BasisList(d, i) ==
    [j \in 1..d |-> IF j <= i THEN 1 ELSE IF j = i + 1 THEN -i ELSE 0]

\* a slip: the rows are not divided by their norm
zero_sum_projection_unnormalised(d, R) ==
    [i \in 1..(d - 1) |-> vector(R, BasisList(d, i))]

\* a slip: the basis vectors are [0]*(d-i-1) + [1]*i + [-i]
zero_sum_projection_trailing(d, R) ==
    LET basis == [i \in 1..(d - 1) |->
                     vector(R, [j \in 1..d |-> BasisList(d, i)[((j + i) % d) + 1]])]
    IN  [i \in 1..(d - 1) |->
            [j \in 1..d |-> Div(basis[i][j], norm(basis[i]))]]

\* zero_sum_projection(d, base_ring): the (d-1) x d matrix, as the list of rows
zero_sum_projection(d, R) ==
    LET basis == [i \in 1..(d - 1) |-> vector(R, BasisList(d, i))]
    IN  [i \in 1..(d - 1) |->
            [j \in 1..d |-> Div(basis[i][j], norm(basis[i]))]]

\* the matrices of zero_sum_projection, computed once per dimension and ring
ProjectionMatrix ==
    [d \in 2..MaxDim |-> [r \in {RDF, AA} |-> zero_sum_projection(d, r)]]

\* m * v for a matrix m (list of rows) and a vector v of matching length
MatVec(M, v) ==
    [i \in 1..Len(M) |-> SumNum([j \in 1..Len(v) |-> Mul(M[i][j], v[j])])]

\* project_points, lines 169-174: the matrix m of a call with points
project_points_m(pts, kw) ==
    LET R == IF kw = None THEN RDF ELSE kw
        vecs == [k \in 1..Len(pts) |-> vector(R, pts[k])]
    IN  ProjectionMatrix[Len(vecs[1])][R]

\* project_points(*points, base_ring=kw): the list of images
project_points(pts, kw) ==
    IF pts = <<>> THEN <<>>
    ELSE LET R == IF kw = None THEN RDF ELSE kw
             vecs == [k \in 1..Len(pts) |-> vector(R, pts[k])]
             M    == project_points_m(pts, kw)
         IN  [k \in 1..Len(vecs) |-> MatVec(M, vecs[k])]

\* ------------------------------------------------------ group actions
\* AlternatingGroup(3), each element as the list of its images
A3 == << <<1, 2, 3>>, <<2, 3, 1>>, <<3, 1, 2>> >>

\* Permutations(3), in lexicographic order
S3 == << <<1, 2, 3>>, <<1, 3, 2>>, <<2, 1, 3>>, <<2, 3, 1>>, <<3, 1, 2>>, <<3, 2, 1>> >>

\* the action consisting of the identity alone, and the empty action
IdOnly == << <<1, 2, 3>> >>
NoElement == << >>

\* a slip in the index: the list v[p(2)], v[p(3)], ..., v[p(1)]
Act_off_by_one(p, v) == [j \in 1..Len(v) |-> v[p[(j % Len(v)) + 1]]]

\* p(v): the list v[p(1)], v[p(2)], ...
Act(p, v) == [j \in 1..Len(v) |-> v[p[j]]]

\* a list without the entries equal to an earlier one
RECURSIVE Dedup(_)
Dedup(s) ==
    IF s = <<>> THEN <<>>
    ELSE LET front == Dedup(SubSeq(s, 1, Len(s) - 1))
             last  == s[Len(s)]
         IN  IF \E k \in 1..Len(front) : front[k] = last
             THEN front ELSE Append(front, last)

\* a variant that keeps only the first occurrence of each vector
Expand_dedup(G, pts) ==
    Dedup([k \in 1..(Len(G) * Len(pts)) |->
              Act(G[((k - 1) \div Len(pts)) + 1], pts[((k - 1) % Len(pts)) + 1])])

\* a variant that stops one group element early
Expand_drop_last(G, pts) ==
    [k \in 1..((Len(G) - 1) * Len(pts)) |->
        Act(G[((k - 1) \div Len(pts)) + 1], pts[((k - 1) % Len(pts)) + 1])]

\* a variant with the loops exchanged: [p(v) for v in pts for p in G]
Expand_seed_outer(G, pts) ==
    [k \in 1..(Len(G) * Len(pts)) |->
        Act(G[((k - 1) % Len(G)) + 1], pts[((k - 1) \div Len(G)) + 1])]

\* a variant that hands the seeds back when there is no group element
Expand_seeds_if_empty(G, pts) ==
    IF G = <<>> THEN pts
    ELSE [k \in 1..(Len(G) * Len(pts)) |->
             Act(G[((k - 1) \div Len(pts)) + 1], pts[((k - 1) % Len(pts)) + 1])]

\* [p(v) for p in G for v in pts]: group element outer, seed inner
Expand(G, pts) ==
    [k \in 1..(Len(G) * Len(pts)) |->
        Act(G[((k - 1) \div Len(pts)) + 1], pts[((k - 1) % Len(pts)) + 1])]

\* for v in pts: for p in G: verts += [p(v)]: seed outer, group element inner
ExpandSeedOuter(G, pts) ==
    [k \in 1..(Len(G) * Len(pts)) |->
        Act(G[((k - 1) % Len(G)) + 1], pts[((k - 1) \div Len(G)) + 1])]

\* itertools.product([1, -1], repeat=2)
SignPairs == << <<1, 1>>, <<1, -1>>, <<-1, 1>>, <<-1, -1>> >>

\* ------------------------------------------------- the rings' operations
\* R(n).sqrt(): an element of the ring when it has the root, the
\* rounded root in RDF, else the symbolic root (a value outside the ring)
RingSqrt(R, n) ==
    IF R = RDF THEN Sqrt(Flt(n * Scale)) ELSE Sqrt(Int2Num(n))

\* whether the number x converts into R; with no ring given (None) the
\* ring is taken from the coordinates and nothing is converted
Converts(x, R) ==
    CASE R \in {RDF, AA, None} -> TRUE
      [] R = QQ -> x.b = 0
      [] R = ZZ -> x.b = 0 /\ x.a % x.d = 0
      [] R = K5 -> x.b = 0 \/ x.rad = 5
      [] R = K2 -> x.b = 0 \/ x.rad = 2

\* the number x as an element of R
Into(x, R) == IF R = RDF THEN ToFlt(x) ELSE x

\* Polyhedron(vertices=vertices, R=R, backend=backend):
\* every coordinate is converted into R, which raises TypeError
\* when one of them is not an element of it
Polyhedron(vertices, R, backend) ==
    IF \A k \in 1..Len(vertices) : \A j \in 1..Len(vertices[k]) :
           Converts(vertices[k][j], R)
    THEN [err |-> "none",
          vertices |-> [k \in 1..Len(vertices) |->
                           [j \in 1..Len(vertices[k]) |-> Into(vertices[k][j], R)]],
          base_ring |-> R, backend |-> backend, polar |-> FALSE]
    ELSE [err |-> "TypeError"]

\* ------------------------------------------------------------- recipes
\* a variant that takes the root in RDF whatever the ring
icosahedron_domain_rdf_root(ex, R) ==
    IF R = None /\ ex
    THEN [err |-> "none", base_ring |-> K5,
          g |-> Div(Add(Int2Num(1), Num(0, 1, 1, 5)), Int2Num(2))]
    ELSE LET br == IF R = None THEN RDF ELSE R
         IN  [err |-> "none", base_ring |-> br,
              g |-> Div(Add(Int2Num(1), RingSqrt(RDF, 5)), Int2Num(2))]

\* a variant that converts the root into the ring at once
icosahedron_domain_eager(ex, R) ==
    IF R = None /\ ex
    THEN [err |-> "none", base_ring |-> K5,
          g |-> Div(Add(Int2Num(1), Num(0, 1, 1, 5)), Int2Num(2))]
    ELSE LET br == IF R = None THEN RDF ELSE R
         IN  IF Converts(RingSqrt(br, 5), br)
             THEN [err |-> "none", base_ring |-> br,
                   g |-> Div(Add(Int2Num(1), RingSqrt(br, 5)), Int2Num(2))]
             ELSE [err |-> "TypeError"]

\* a variant whose default ring, exact or not, is an exact one
icosahedron_domain_default_aa(ex, R) ==
    IF R = None /\ ex
    THEN [err |-> "none", base_ring |-> K5,
          g |-> Div(Add(Int2Num(1), Num(0, 1, 1, 5)), Int2Num(2))]
    ELSE LET br == IF R = None THEN AA ELSE R
         IN  [err |-> "none", base_ring |-> br,
              g |-> Div(Add(Int2Num(1), RingSqrt(br, 5)), Int2Num(2))]

\* a variant that ignores exact when no ring is given
icosahedron_domain_ignores_exact(ex, R) ==
    LET br == IF R = None THEN RDF ELSE R
    IN  [err |-> "none", base_ring |-> br,
         g |-> Div(Add(Int2Num(1), RingSqrt(br, 5)), Int2Num(2))]

\* icosahedron, lines 417-426: the ring and the golden ratio c
icosahedron_domain(ex, R) ==
    IF R = None /\ ex
    THEN [err |-> "none", base_ring |-> K5,
          g |-> Div(Add(Int2Num(1), Num(0, 1, 1, 5)), Int2Num(2))]
    ELSE LET br == IF R = None THEN RDF ELSE R
         IN  [err |-> "none", base_ring |-> br,
              g |-> Div(Add(Int2Num(1), RingSqrt(br, 5)), Int2Num(2))]

\* a variant that puts a sign on the zero coordinate as well
icosahedron_pts_signed_zero(R, gg) ==
    LET r12 == Div(Coerce(R, 1), Int2Num(2))
        z   == Coerce(R, 0)
    IN  [k \in 1..8 |->
            << Mul(Int2Num(IF k <= 4 THEN 1 ELSE -1), z),
               Mul(Int2Num(SignPairs[((k - 1) % 4) + 1][1]), r12),
               Div(Mul(Int2Num(SignPairs[((k - 1) % 4) + 1][2]), gg), Int2Num(2)) >>]

\* icosahedron, lines 428-431: the seeds [z, s1 * r12, s2 * c / 2]
icosahedron_pts(R, gg) ==
    LET r12 == Div(Coerce(R, 1), Int2Num(2))
        z   == Coerce(R, 0)
    IN  [k \in 1..4 |->
            << z, Mul(Int2Num(SignPairs[k][1]), r12),
               Div(Mul(Int2Num(SignPairs[k][2]), gg), Int2Num(2)) >>]

\* truncated_cube, lines 732-741: the ring and c = sqrt(2) - 1
truncated_cube_domain(ex, R) ==
    IF R = None /\ ex
    THEN [err |-> "none", base_ring |-> K2,
          g |-> Sub(Num(0, 1, 1, 2), Int2Num(1))]
    ELSE LET br == IF R = None THEN RDF ELSE R
         IN  [err |-> "none", base_ring |-> br,
              g |-> Sub(RingSqrt(br, 2), Int2Num(1))]

\* for a in [-1, 1] for b in [-1, 1] for c in [-1, 1], as the index 1..8
Sign3(k) == << 2 * ((k - 1) \div 4) - 1, 2 * (((k - 1) \div 2) % 2) - 1, 2 * ((k - 1) % 2) - 1 >>

\* truncated_cube, lines 743-745: the 24 vertices
truncated_cube_v(gg) ==
    [k \in 1..24 |->
        LET s == Sign3(((k - 1) % 8) + 1)
            a == Int2Num(s[1])
            b == Int2Num(s[2])
            c == Int2Num(s[3])
        IN  CASE k <= 8  -> << Mul(a, gg), b, c >>
              [] k <= 16 -> << a, Mul(b, gg), c >>
              [] OTHER   -> << a, b, Mul(c, gg) >>]

\* a variant with f in [-1, 1]
truncated_octahedron_v_unit ==
    [k \in 1..4 |->
        << Int2Num(0), Int2Num(2 * ((k - 1) \div 2) - 1), Int2Num(2 * ((k - 1) % 2) - 1) >>]

\* truncated_octahedron, line 877: the seeds (0, e, f)
truncated_octahedron_v ==
    [k \in 1..4 |->
        << Int2Num(0), Int2Num(2 * ((k - 1) \div 2) - 1), Int2Num(4 * ((k - 1) % 2) - 2) >>]

RECURSIVE Pow(_, _)
Pow(t, i) == IF i = 0 THEN 1 ELSE t * Pow(t, i - 1)

\* cyclic_polytope, line 1721: [[t**i for i in range(1,dim+1)] for t in range(n)]
cyclic_polytope_verts(dim, n) ==
    [k \in 1..n |-> [i \in 1..dim |-> Int2Num(Pow(k - 1, i))]]

\* snub_cube, lines 942-944: the RDF constant z
snub_cube_z ==
    LET tsqr33 == Mul(Int2Num(3), RingSqrt(RDF, 33))
    IN  Div(Sub(Sub(CubeRoot(Add(Int2Num(17), tsqr33)),
                    CubeRoot(Add(Int2Num(-17), tsqr33))), Int2Num(1)), Int2Num(3))

\* a variant without the test of e * f * g: one rule for every sign triple
snub_cube_v_one_rule(z) ==
    LET z2 == Mul(z, z)
    IN  [k \in 1..8 |->
            << Int2Num(Sign3(k)[1]), Mul(Int2Num(Sign3(k)[2]), z),
               Mul(Int2Num(Sign3(k)[3]), z2) >>]

\* snub_cube, lines 949-957: the vector v of each sign triple (e, f, c)
snub_cube_v(z) ==
    LET z2 == Mul(z, z)
    IN  [k \in 1..8 |->
            LET e == Sign3(k)[1]
                f == Sign3(k)[2]
                s == Sign3(k)[3]
            IN  IF e * f * s = -1
                THEN << Int2Num(e), Mul(Int2Num(f), z), Mul(Int2Num(s), z2) >>
                ELSE << Mul(Int2Num(f), z), Int2Num(e), Mul(Int2Num(s), z2) >>]

\* small_rhombicuboctahedron, lines 520-528, and
\* great_rhombicuboctahedron, lines 579-587: the ring and sqrt2
rhombicuboctahedron_domain(ex, R) ==
    IF R = None /\ ex
    THEN [err |-> "none", base_ring |-> K2, g |-> Num(0, 1, 1, 2)]
    ELSE LET br == IF R = None THEN RDF ELSE R
         IN  [err |-> "none", base_ring |-> br, g |-> RingSqrt(br, 2)]

\* itertools.product([1, -1], repeat=3), as the index 1..8
SignTriples(k) ==
    << 1 - 2 * ((k - 1) \div 4), 1 - 2 * (((k - 1) \div 2) % 2), 1 - 2 * ((k - 1) % 2) >>

\* small_rhombicuboctahedron, lines 530-535: the 24 vertices
small_rhombicuboctahedron_verts(R, sqrt2) ==
    LET one == Coerce(R, 1)
        a   == Add(sqrt2, one)
    IN  [k \in 1..24 |->
            LET t  == SignTriples(((k - 1) % 8) + 1)
                s1 == Int2Num(t[1])
                s2 == Int2Num(t[2])
                s3 == Int2Num(t[3])
            IN  CASE k <= 8  -> << Mul(s1, one), Mul(s2, one), Mul(s3, a) >>
                  [] k <= 16 -> << Mul(s1, one), Mul(s3, a), Mul(s2, one) >>
                  [] OTHER   -> << Mul(s1, a), Mul(s2, one), Mul(s3, one) >>]

\* itertools.permutations of three items
Permutations3 == << <<1, 2, 3>>, <<1, 3, 2>>, <<2, 1, 3>>, <<2, 3, 1>>, <<3, 1, 2>>, <<3, 2, 1>> >>

\* great_rhombicuboctahedron, lines 589-594: the 48 vertices
great_rhombicuboctahedron_verts(R, sqrt2) ==
    LET one == Coerce(R, 1)
        v1  == Add(sqrt2, Int2Num(1))
        v2  == Add(Mul(Int2Num(2), sqrt2), Int2Num(1))
        zs  == <<one, v1, v2>>
    IN  [k \in 1..48 |->
            LET pm == Permutations3[((k - 1) \div 8) + 1]
                t  == SignTriples(((k - 1) % 8) + 1)
            IN  [j \in 1..3 |-> Mul(Int2Num(t[j]), zs[pm[j]])]]

\* icosidodecahedron, lines 1039-1041: phi in QuadraticField(5)
icosidodecahedron_phi == Div(Add(Int2Num(1), Num(0, 1, 1, 5)), Int2Num(2))

\* icosidodecahedron, lines 1043-1045: the 10 generators
icosidodecahedron_gens(phi) ==
    LET one == Int2Num(1) IN
    [k \in 1..10 |->
        IF k <= 8
        THEN LET t == SignTriples(k)
             IN  << Div(Mul(Int2Num(t[1]), one), Int2Num(2)),
                    Div(Mul(Int2Num(t[2]), phi), Int2Num(2)),
                    Div(Mul(Int2Num(t[3]), Add(one, phi)), Int2Num(2)) >>
        ELSE << Int2Num(0), Int2Num(0), IF k = 9 THEN phi ELSE Neg(phi) >>]

\* icosidodecahedron, line 1054: [(RR(x), RR(y), RR(z)) for x, y, z in verts]
icosidodecahedron_RR(vs) ==
    [k \in 1..Len(vs) |-> [j \in 1..Len(vs[k]) |-> ToFlt(vs[k][j])]]

\* icosidodecahedron_V2, lines 1111-1113: the 10 seeds
icosidodecahedron_V2_pts(R, gg) ==
    [k \in 1..10 |->
        IF k <= 2
        THEN << IF k = 1 THEN gg ELSE Neg(gg), Int2Num(0), Int2Num(0) >>
        ELSE LET t == SignTriples(k - 2)
             IN  << Div(Mul(Int2Num(t[1]), Coerce(R, 1)), Int2Num(2)),
                    Div(Mul(Int2Num(t[2]), gg), Int2Num(2)),
                    Div(Mul(Int2Num(t[3]), Add(Int2Num(1), gg)), Int2Num(2)) >>]

\* itertools.product([1, -1], repeat=3) and then repeat=2, as three integers
Signs3(k) == IF k <= 8 THEN SignTriples(k) ELSE <<SignPairs[k - 8][1], SignPairs[k - 8][2], 0>>

\* rhombicosidodecahedron, lines 1331-1336: the 20 seeds
rhombicosidodecahedron_pts(R, gg) ==
    LET one == Coerce(R, 1)
        g2  == Mul(gg, gg)
        g3  == Mul(g2, gg)
    IN  [k \in 1..20 |->
            LET t == Signs3(IF k <= 16 THEN ((k - 1) % 8) + 1 ELSE k - 8)
            IN  CASE k <= 8  -> << Mul(Int2Num(t[1]), one), Mul(Int2Num(t[2]), one),
                                   Mul(Int2Num(t[3]), g3) >>
                  [] k <= 16 -> << Mul(Int2Num(t[1]), g2), Mul(Int2Num(t[2]), gg),
                                   Mul(Int2Num(t[3] * 2), gg) >>
                  [] OTHER   -> << Mul(Int2Num(t[1]), Add(Int2Num(2), gg)), Int2Num(0),
                                   Mul(Int2Num(t[2]), g2) >>]

\* truncated_dodecahedron, lines 1180-1186: the 20 seeds
truncated_dodecahedron_pts(R, gg) ==
    LET one == Coerce(R, 1)
        z   == Coerce(R, 0)
        g2  == Mul(gg, gg)
    IN  [k \in 1..20 |->
            LET t == Signs3(IF k <= 4 THEN k + 8 ELSE ((k - 5) % 8) + 1)
            IN  CASE k <= 4  -> << z, Div(Mul(Int2Num(t[1]), one), gg),
                                   Mul(Int2Num(t[2]), Add(Int2Num(2), gg)) >>
                  [] k <= 12 -> << Div(Mul(Int2Num(t[1]), one), gg), Mul(Int2Num(t[2]), gg),
                                   Mul(Int2Num(t[3]), Mul(Int2Num(2), gg)) >>
                  [] OTHER   -> << Mul(Int2Num(t[1]), gg), Mul(Int2Num(t[2]), Coerce(R, 2)),
                                   Mul(Int2Num(t[3]), g2) >>]

\* truncated_icosidodecahedron, lines 1399-1408: the 40 seeds
truncated_icosidodecahedron_pts(R, gg) ==
    LET one == Coerce(R, 1)
        g2  == Mul(gg, gg)
    IN  [k \in 1..40 |->
            LET t  == SignTriples(((k - 1) % 8) + 1)
                s1 == t[1]
                s2 == t[2]
                s3 == Int2Num(t[3])
            IN  CASE k <= 8  -> << Div(Int2Num(s1 * 1), gg), Div(Int2Num(s2 * 1), gg),
                                   Mul(s3, Add(Int2Num(3), gg)) >>
                  [] k <= 16 -> << Div(Int2Num(s1 * 2), gg), Mul(Int2Num(s2), gg),
                                   Mul(s3, Add(Int2Num(1), Mul(Int2Num(2), gg))) >>
                  [] k <= 24 -> << Div(Int2Num(s1 * 1), gg), Mul(Int2Num(s2), g2),
                                   Mul(s3, Add(Int2Num(-1), Mul(Int2Num(3), gg))) >>
                  [] k <= 32 -> << Mul(Int2Num(s1), Add(Int2Num(-1), Mul(Int2Num(2), gg))),
                                   Mul(Int2Num(s2 * 2), one), Mul(s3, Add(Int2Num(2), gg)) >>
                  [] OTHER   -> << Mul(Int2Num(s1), gg), Mul(Int2Num(s2 * 3), one),
                                   Mul(Int2Num(t[3] * 2), gg) >>]

\* the recipes that write verts = pts and extend verts twice:
\* icosidodecahedron_V2 (1114-1116), truncated_dodecahedron (1187-1189),
\* rhombicosidodecahedron (1338-1340), truncated_icosidodecahedron (1410-1412)
AliasedRecipes ==
    {"icosidodecahedron_V2", "truncated_dodecahedron", "rhombicosidodecahedron",
     "truncated_icosidodecahedron"}

\* icosidodecahedron_V2, lines 1114-1116: verts = pts makes verts and pts
\* one list; each += extends it by the images of all it holds by then
ExpandAliased(pts) ==
    LET once == pts \o [k \in 1..Len(pts) |-> Act(<<2, 3, 1>>, pts[k])]
    IN  once \o [k \in 1..Len(once) |-> Act(<<3, 1, 2>>, once[k])]

\* regular_polygon, lines 227-231: the ring of the coordinates
regular_polygon_domain(ex, R) ==
    IF R = None THEN (IF ex THEN AA ELSE RDF) ELSE R

\* whether the ring has a method pi(): the floating-point fields have one,
\* QQ and AA have none
HasPi(R) == R = RDF

\* the sine of j * pi / 6
Sin12(j) ==
    LET q == j % 12
        h == q % 6
        v == CASE h = 0 -> Int2Num(0)
               [] h \in {1, 5} -> Num(1, 0, 2, 1)
               [] h \in {2, 4} -> Num(0, 1, 2, 3)
               [] OTHER -> Int2Num(1)
    IN  IF q < 6 THEN v ELSE Neg(v)

\* the cosine of j * pi / 6
Cos12(j) == Sin12(j + 3)

\* regular_polygon, lines 234-235: ((i*omega).sin(), (i*omega).cos())
regular_polygon_trig(n, R) ==
    [k \in 1..n |-> << Into(Sin12((12 \div n) * (k - 1)), R),
                       Into(Cos12((12 \div n) * (k - 1)), R) >>]

\* regular_polygon, lines 237-238: ((z**k).imag(), (z**k).real()) for the
\* root of unity z = QQbar.zeta(n), before the conversion into the ring
regular_polygon_zeta(n) ==
    [k \in 1..n |-> << Sin12((12 \div n) * (k - 1)), Cos12((12 \div n) * (k - 1)) >>]

RECURSIVE Factorial(_)
Factorial(n) == IF n <= 1 THEN 1 ELSE n * Factorial(n - 1)

\* the list s without its entry k
Remove(s, k) == SubSeq(s, 1, k - 1) \o SubSeq(s, k + 1, Len(s))

\* itertools.permutations(items): the permutations of the list, in
\* lexicographic order of the positions
RECURSIVE permutations(_)
permutations(items) ==
    IF Len(items) <= 1 THEN <<items>>
    ELSE LET f   == Factorial(Len(items) - 1)
             sub == [k \in 1..Len(items) |-> permutations(Remove(items, k))]
         IN  [idx \in 1..(Len(items) * f) |->
                 <<items[((idx - 1) \div f) + 1]>>
                     \o sub[((idx - 1) \div f) + 1][((idx - 1) % f) + 1]]

\* range(n)
range(n) == [i \in 1..n |-> i - 1]

\* a variant with the test i == j in the place of p[i] == j
Birkhoff_polytope_verts_diagonal(n) ==
    LET P == permutations(range(n))
    IN  [k \in 1..Len(P) |->
            [q \in 1..(n * n) |->
                IF (q - 1) % n = (q - 1) \div n THEN Int2Num(1) ELSE Int2Num(0)]]

\* Birkhoff_polytope, lines 288-290: for each permutation p the list
\* [1 if p[i] == j else 0 for j in range(n) for i in range(n)]
Birkhoff_polytope_verts(n) ==
    LET P == permutations(range(n))
    IN  [k \in 1..Len(P) |->
            [q \in 1..(n * n) |->
                IF P[k][((q - 1) % n) + 1] = (q - 1) \div n THEN Int2Num(1) ELSE Int2Num(0)]]

\* simplex, line 359: list((ZZ ** (dim+1)).basis())
simplex_verts(dim) ==
    [i \in 1..(dim + 1) |-> [j \in 1..(dim + 1) |-> IF j = i THEN 1 ELSE 0]]

\* the list of the d binary digits of x, the highest first
Bits(d, x) == [j \in 1..d |-> (x \div Pow(2, d - j)) % 2]

\* a variant that lists the vectors with at most k ones
hypersimplex_verts_at_most_k(dim, k) ==
    LET AtMostK(w) == SumSeq(w) <= k
    IN  SelectSeq([x \in 1..Pow(2, dim) |-> Bits(dim, x - 1)], AtMostK)

\* hypersimplex, line 1767: Permutations([0]*(dim-k) + [1]*k).list(), the
\* distinct arrangements of the list in lexicographic order
hypersimplex_verts(dim, k) ==
    LET HasK(w) == SumSeq(w) = k
    IN  SelectSeq([x \in 1..Pow(2, dim) |-> Bits(dim, x - 1)], HasK)

\* permutahedron, line 1824: list(itertools.permutations(range(1,n+1)))
permutahedron_verts(n) == permutations([i \in 1..n |-> i])

\* the number of pairs of positions of p that are out of order
Inversions(p) == Cardinality({ij \in (1..Len(p)) \X (1..Len(p)) :
                                 ij[1] < ij[2] /\ p[ij[1]] > p[ij[2]]})

\* a variant with all the permutations of 4 items
A4_all_permutations == permutations(<<1, 2, 3, 4>>)

\* AlternatingGroup(4), each element as the list of its images; the claims
\* about its orbits do not depend on the order of the elements
A4 ==
    LET IsEven(p) == Inversions(p) % 2 = 0
    IN  SelectSeq(permutations(<<1, 2, 3, 4>>), IsEven)

\* six_hundred_cell, lines 1554-1562, and grand_antiprism, lines 1615-1623:
\* the ring and the golden ratio g
six_hundred_cell_domain(ex) ==
    IF ex
    THEN [err |-> "none", base_ring |-> K5,
          g |-> Div(Add(Int2Num(1), Num(0, 1, 1, 5)), Int2Num(2))]
    ELSE [err |-> "none", base_ring |-> RDF,
          g |-> Div(Add(Int2Num(1), RingSqrt(RDF, 5)), Int2Num(2))]

\* itertools.product([1, -1], repeat=4), as the index 1..16
SignQuadruples(k) ==
    << 1 - 2 * ((k - 1) \div 8), 1 - 2 * (((k - 1) \div 4) % 2),
       1 - 2 * (((k - 1) \div 2) % 2), 1 - 2 * ((k - 1) % 2) >>

\* lines 1566 and 1627: [s1*q12, s2*q12, s3*q12, s4*q12] for the 16 signs
HalfCube(R) ==
    LET q12 == Div(Coerce(R, 1), Coerce(R, 2))
    IN  [k \in 1..16 |-> [j \in 1..4 |-> Mul(Int2Num(SignQuadruples(k)[j]), q12)]]

\* (base_ring**4).basis()
Basis4(R) == [i \in 1..4 |-> [j \in 1..4 |-> Coerce(R, IF j = i THEN 1 ELSE 0)]]

\* -v for each v of a list of vectors
NegAll(vs) == [k \in 1..Len(vs) |-> [j \in 1..Len(vs[k]) |-> Neg(vs[k][j])]]

\* six_hundred_cell, lines 1564-1569: the first 24 vertices
six_hundred_cell_verts(R) == HalfCube(R) \o Basis4(R) \o NegAll(Basis4(R))

\* six_hundred_cell, line 1570: the 8 seeds [s1*q12, s2*g/2, s3/(2*g), z]
six_hundred_cell_pts(R, gg) ==
    LET q12 == Div(Coerce(R, 1), Coerce(R, 2))
        z   == Coerce(R, 0)
    IN  [k \in 1..8 |->
            << Mul(Int2Num(SignTriples(k)[1]), q12),
               Div(Mul(Int2Num(SignTriples(k)[2]), gg), Int2Num(2)),
               Div(Int2Num(SignTriples(k)[3]), Mul(Int2Num(2), gg)),
               z >>]

\* grand_antiprism, lines 1632-1654: the 64 and the 16 vertices with the
\* coordinates q12, g/2, 1/(2*g) and z
grand_antiprism_rows(R, gg) ==
    LET q12 == Div(Coerce(R, 1), Coerce(R, 2))
        z   == Coerce(R, 0)
        Q(s) == Mul(Int2Num(s), q12)                       \* s * q12
        I(s) == Div(Int2Num(s), Mul(Int2Num(2), gg))       \* s/(2*g)
        G(s) == Div(Mul(Int2Num(s), gg), Int2Num(2))       \* s*g/2
        mq   == Neg(q12)                                   \* -q12
        mg   == Div(Neg(gg), Int2Num(2))                   \* -g/2
        T(k) == SignTriples(k)
        rows == [r \in 1..8 |-> [k \in 1..8 |->
                   CASE r = 1 -> << Q(T(k)[1]), I(T(k)[2]), G(T(k)[3]), z >>
                     [] r = 2 -> << G(T(k)[3]), Q(T(k)[1]), I(T(k)[2]), z >>
                     [] r = 3 -> << I(T(k)[2]), G(T(k)[3]), Q(T(k)[1]), z >>
                     [] r = 4 -> << Q(T(k)[1]), G(T(k)[2]), z, I(T(k)[3]) >>
                     [] r = 5 -> << I(T(k)[3]), Q(T(k)[1]), z, G(T(k)[2]) >>
                     [] r = 6 -> << G(T(k)[2]), I(T(k)[3]), z, Q(T(k)[1]) >>
                     [] r = 7 -> << Q(T(k)[1]), z, I(T(k)[2]), G(T(k)[3]) >>
                     [] r = 8 -> << z, Q(T(k)[1]), G(T(k)[2]), I(T(k)[3]) >>]]
        pairs == [r \in 1..8 |-> [k \in 1..2 |->
                   LET s1 == 3 - 2 * k IN
                   CASE r = 1 -> << z, I(s1), q12, G(1) >>
                     [] r = 2 -> << z, I(s1), mq, mg >>
                     [] r = 3 -> << z, G(s1), I(1), q12 >>
                     [] r = 4 -> << z, G(s1), I(-1), mq >>
                     [] r = 5 -> << G(s1), z, q12, I(-1) >>
                     [] r = 6 -> << G(s1), z, mq, I(1) >>
                     [] r = 7 -> << I(s1), z, G(1), mq >>
                     [] r = 8 -> << I(s1), z, mg, q12 >>]]
    IN  [n \in 1..64 |-> rows[((n - 1) \div 8) + 1][((n - 1) % 8) + 1]]
          \o [n \in 1..16 |-> pairs[((n - 1) \div 2) + 1][((n - 1) % 2) + 1]]

\* a variant that takes the whole basis, not V.basis()[2:]
grand_antiprism_verts_whole_basis(R, gg) ==
    HalfCube(R) \o Basis4(R) \o NegAll(Basis4(R)) \o grand_antiprism_rows(R, gg)

\* grand_antiprism, lines 1625-1654: the 100 vertices
grand_antiprism_verts(R, gg) ==
    HalfCube(R) \o SubSeq(Basis4(R), 3, 4) \o NegAll(SubSeq(Basis4(R), 3, 4))
        \o grand_antiprism_rows(R, gg)

\* itertools.combinations of n positions taken k at a time, each as the
\* list of n marks 0 / 1, in the lexicographic order of the positions taken
combinations(n, k) ==
    LET HasK(w) == SumSeq(w) = k
    IN  SelectSeq([x \in 1..Pow(2, n) |-> Bits(n, Pow(2, n) - x)], HasK)

\* for k in range(lo, hi + 1) for c in combinations(generators, k)
RECURSIVE CombinationsBySize(_, _, _)
CombinationsBySize(n, lo, hi) ==
    IF lo > hi THEN <<>> ELSE combinations(n, lo) \o CombinationsBySize(n, lo + 1, hi)

\* u + v for two vectors of one dimension
VecAdd(u, v) == [j \in 1..Len(u) |-> Add(u[j], v[j])]

\* sum(c) for the generators marked in w, added from the first to the last
RECURSIVE MarkedSum(_, _, _)
MarkedSum(gens, w, acc) ==
    IF gens = <<>> THEN acc
    ELSE MarkedSum(Tail(gens), Tail(w),
                   IF Head(w) = 1 THEN VecAdd(acc, Head(gens)) ELSE acc)

\* parallelotope, lines 1952-1953: the base ring of the universe of the
\* generators: ZZ for integers, the quadratic field once it has an element
parallelotope_R(gens) ==
    IF \A i \in 1..Len(gens) : \A j \in 1..Len(gens[i]) : IsRational(gens[i][j])
    THEN ZZ ELSE K2

\* a variant with range(1, len(generators)): the sum of all is left out
parallelotope_par_without_last(gens) ==
    LET zero == [j \in 1..Len(gens[1]) |-> Int2Num(0)]
        cs   == CombinationsBySize(Len(gens), 1, Len(gens) - 1)
    IN  <<zero>> \o [i \in 1..Len(cs) |-> MarkedSum(gens, cs[i], zero)]

\* parallelotope, lines 1956-1958: V.zero(), then sum(c) for k in
\* range(1, len(generators) + 1) for c in combinations(generators, k)
parallelotope_par(gens) ==
    LET zero == [j \in 1..Len(gens[1]) |-> Int2Num(0)]
        cs   == CombinationsBySize(Len(gens), 1, Len(gens))
    IN  <<zero>> \o [i \in 1..Len(cs) |-> MarkedSum(gens, cs[i], zero)]

\* ---------------------------------------------------------------- state
VARIABLES
    pc,         \* position of the call in progress
    fn,         \* the function called
    exact,      \* the argument exact of the call
    kwring,     \* the argument base_ring of the call
    kwbackend,  \* the argument backend of the call
    size,       \* the integer arguments of the call
    base_ring,  \* the local base_ring of a recipe
    g,          \* the constant of a recipe
    points,     \* the points of project_points, the seeds (pts, v) of a recipe
    group,      \* the group whose elements act on the seeds
    m,          \* the projection matrix of a project_points call
    verts,      \* the vertex list built so far
    out,        \* what the call returned
    err,        \* the exception the call ended in
    raised_at,  \* the step that raised it
    caught,     \* the exceptions caught inside the call, in order
    hull_calls, \* the calls of Polyhedron made by the call
    zsp_calls,  \* the calls of zero_sum_projection made by the call
    project     \* the argument project of the call

vars == <<pc, fn, exact, kwring, kwbackend, size, base_ring, g, points, group, m, verts,
          out, err, raised_at, caught, hull_calls, zsp_calls, project>>

Zero == Int2Num(0)

Idle ==
    /\ pc = "idle"
    /\ fn = "none"
    /\ exact = TRUE
    /\ kwring = None
    /\ kwbackend = None
    /\ size = <<>>
    /\ base_ring = None
    /\ g = Zero
    /\ points = <<>>
    /\ group = <<>>
    /\ m = <<>>
    /\ verts = <<>>
    /\ out = <<>>
    /\ err = "none"
    /\ raised_at = "none"
    /\ caught = <<>>
    /\ hull_calls = 0
    /\ zsp_calls = 0
    /\ project = FALSE

Init == Idle

\* the numbers of points handed to project_points
NPoints == {0, 1, 2}

\* the points of a call have one dimension and, as in simplex, hypersimplex
\* and permutahedron, one coordinate sum
EqualSums(pts) == \A i, j \in 1..Len(pts) : SumSeq(pts[i]) = SumSeq(pts[j])

\* the step of a call ends in an exception
Raise(e) ==
    /\ err' = e
    /\ raised_at' = pc
    /\ pc' = "raised"

\* the points of the doctests of project_points
DoctestPoints == { << <<2, -1, 3, 2>> >>, << <<1, 2, 3>>, <<3, 3, 5>> >> }

\* sample coordinates of points of unequal dimensions
MixedCoords == {0, 2}

\* project_points(*pts, base_ring=kw) is entered
CallProjectPoints ==
    /\ pc = "idle"
    /\ \/ \E kw \in {None, AA}, d \in 2..MaxDim, n \in NPoints \ {0} :
            \E pts \in [1..n -> [1..d -> Coords]] :
               /\ EqualSums(pts)
               /\ kwring' = kw
               /\ points' = pts
       \/ \E kw \in {None, AA}, pts \in DoctestPoints :
               /\ kwring' = kw
               /\ points' = pts
       \/ \E kw \in {None, AA}, d1, d2 \in 2..MaxDim :
            \E p \in [1..d1 -> MixedCoords], q \in [1..d2 -> MixedCoords] :
               /\ d1 # d2
               /\ kwring' = kw
               /\ points' = <<p, q>>
       \/ \E kw \in {None, AA, RDF, QQ} :
               /\ kwring' = kw
               /\ points' = <<>>
    /\ fn' = "project_points"
    /\ pc' = "pp_entry"
    /\ UNCHANGED <<exact, kwbackend, size, base_ring, g, group, m, verts, out,
                   err, raised_at, caught, hull_calls, zsp_calls>>
    /\ UNCHANGED project

\* a variant without the test `if not points`: vecs[0] of no vector
ProjectPointsEntry_no_guard ==
    /\ pc = "pp_entry"
    /\ IF points = <<>>
       THEN /\ Raise("IndexError")
            /\ UNCHANGED <<base_ring, m, zsp_calls, out>>
       ELSE /\ base_ring' = IF kwring = None THEN RDF ELSE kwring
            /\ m' = ProjectionMatrix[Len(points[1])][base_ring']
            /\ zsp_calls' = zsp_calls + 1
            /\ pc' = "pp_apply"
            /\ UNCHANGED <<out, err, raised_at>>
    /\ UNCHANGED <<fn, exact, kwring, kwbackend, size, g, points, group, verts,
                   caught, hull_calls>>
    /\ UNCHANGED project

\* lines 167-174: no point, or the ring, the vectors and the matrix
ProjectPointsEntry ==
    /\ pc = "pp_entry"
    /\ IF points = <<>>
       THEN /\ out' = <<>>
            /\ pc' = "returned"
            /\ UNCHANGED <<base_ring, m, zsp_calls>>
       ELSE /\ base_ring' = IF kwring = None THEN RDF ELSE kwring
            /\ m' = ProjectionMatrix[Len(points[1])][base_ring']
            /\ zsp_calls' = zsp_calls + 1
            /\ pc' = "pp_apply"
            /\ UNCHANGED out
    /\ UNCHANGED <<fn, exact, kwring, kwbackend, size, g, points, group, verts,
                   err, raised_at, caught, hull_calls>>
    /\ UNCHANGED project

\* a variant that returns the images built so far when a product fails
ProjectPointsApply_partial ==
    /\ pc = "pp_apply"
    /\ LET i == Len(verts) + 1 IN
       IF i > Len(points) \/ Len(points[i]) # Len(m[1])
       THEN /\ out' = verts
            /\ pc' = "returned"
            /\ UNCHANGED verts
       ELSE /\ verts' = Append(verts, MatVec(m, vector(base_ring, points[i])))
            /\ pc' = "pp_apply"
            /\ UNCHANGED out
    /\ UNCHANGED <<fn, exact, kwring, kwbackend, size, base_ring, g, points,
                   group, m, err, raised_at, caught, hull_calls, zsp_calls>>
    /\ UNCHANGED project

\* a variant that builds the matrix anew for every point
ProjectPointsApply_rebuilds ==
    /\ pc = "pp_apply"
    /\ LET i == Len(verts) + 1 IN
       IF i > Len(points)
       THEN /\ out' = verts
            /\ pc' = "returned"
            /\ UNCHANGED <<verts, err, raised_at, m, zsp_calls>>
       ELSE IF Len(points[i]) # Len(m[1])
            THEN /\ Raise("TypeError")
                 /\ UNCHANGED <<verts, out, m, zsp_calls>>
            ELSE /\ m' = ProjectionMatrix[Len(points[i])][base_ring]
                 /\ zsp_calls' = IF i = 1 THEN zsp_calls ELSE zsp_calls + 1
                 /\ verts' = Append(verts, MatVec(m', vector(base_ring, points[i])))
                 /\ pc' = "pp_apply"
                 /\ UNCHANGED <<out, err, raised_at>>
    /\ UNCHANGED <<fn, exact, kwring, kwbackend, size, base_ring, g, points,
                   group, caught, hull_calls>>
    /\ UNCHANGED project

\* line 175, [m*v for v in vecs]: the next product, which raises when v
\* has not the dimension of the matrix, or the return of the list
ProjectPointsApply ==
    /\ pc = "pp_apply"
    /\ LET i == Len(verts) + 1 IN
       IF i > Len(points)
       THEN /\ out' = verts
            /\ pc' = "returned"
            /\ UNCHANGED <<verts, err, raised_at>>
       ELSE IF Len(points[i]) # Len(m[1])
            THEN /\ Raise("TypeError")
                 /\ UNCHANGED <<verts, out>>
            ELSE /\ verts' = Append(verts, MatVec(m, vector(base_ring, points[i])))
                 /\ pc' = "pp_apply"
                 /\ UNCHANGED <<out, err, raised_at>>
    /\ UNCHANGED <<fn, exact, kwring, kwbackend, size, base_ring, g, points,
                   group, m, caught, hull_calls, zsp_calls>>
    /\ UNCHANGED project

\* sample coordinates of the seeds handed to the expansion
SeedCoords == {-1, 0, 1}

\* the expansion of a seed list under a group action, run to its end
CallExpand ==
    /\ pc = "idle"
    /\ \E G \in {A3, S3, IdOnly, NoElement}, n \in 0..MaxSeeds :
         \E pts \in [1..n -> [1..3 -> SeedCoords]] :
            /\ fn' = "expand"
            /\ group' = G
            /\ points' = [k \in 1..n |-> vector(ZZ, pts[k])]
            /\ verts' = Expand(G, [k \in 1..n |-> vector(ZZ, pts[k])])
            /\ out' = verts'
            /\ pc' = "returned"
    /\ UNCHANGED <<exact, kwring, kwbackend, size, base_ring, g, err,
                   raised_at, m>>
    /\ UNCHANGED <<caught, hull_calls, zsp_calls>>
    /\ UNCHANGED project

Backends == {None, "normaliz"}

\* the rings a caller passes to a recipe
Rings == {None, QQ, K5, K2, AA, RDF}

\* the sizes cyclic_polytope is called with
CyclicDims == {2, 3}
CyclicN == {3, 4}

\* a recipe (exact, base_ring, backend) that selects its ring is entered
CallRecipe ==
    /\ pc = "idle"
    /\ \E f \in {"icosahedron", "dodecahedron", "truncated_cube"} \cup AliasedRecipes,
          e \in BOOLEAN, kw \in Rings, b \in Backends :
            /\ fn' = f
            /\ exact' = e
            /\ kwring' = kw
            /\ base_ring' = kw
            /\ kwbackend' = b
            /\ pc' = "domain"
    /\ UNCHANGED <<size, g, points, group, verts, out, err, raised_at, m>>
    /\ UNCHANGED <<caught, hull_calls, zsp_calls>>
    /\ UNCHANGED project

\* truncated_octahedron(backend) or snub_cube(backend) is entered
CallFixedRecipe ==
    /\ pc = "idle"
    /\ \E f \in {"truncated_octahedron", "snub_cube"}, b \in Backends :
            /\ fn' = f
            /\ kwbackend' = b
            /\ pc' = IF f = "snub_cube" THEN "domain" ELSE "seeds"
    /\ UNCHANGED <<exact, kwring, size, base_ring, g, points, group, verts,
                   out, err, raised_at, m>>
    /\ UNCHANGED <<caught, hull_calls, zsp_calls>>
    /\ UNCHANGED project

\* cyclic_polytope(dim, n, base_ring, backend) is entered
CallCyclicPolytope ==
    /\ pc = "idle"
    /\ \E dim \in CyclicDims, n \in CyclicN, kw \in {QQ, RDF}, b \in Backends :
            /\ fn' = "cyclic_polytope"
            /\ size' = <<dim, n>>
            /\ kwring' = kw
            /\ base_ring' = kw
            /\ kwbackend' = b
            /\ pc' = "seeds"
    /\ UNCHANGED <<exact, g, points, group, verts, out, err, raised_at, m>>
    /\ UNCHANGED <<caught, hull_calls, zsp_calls>>
    /\ UNCHANGED project

\* Birkhoff_polytope(n, backend) is entered
CallBirkhoffPolytope ==
    /\ pc = "idle"
    /\ \E n \in 1..MaxN, b \in Backends :
            /\ fn' = "Birkhoff_polytope"
            /\ size' = <<n>>
            /\ kwbackend' = b
            /\ pc' = "seeds"
    /\ UNCHANGED <<exact, kwring, base_ring, g, points, group, verts, out, err,
                   raised_at, m, caught, hull_calls, zsp_calls>>
    /\ UNCHANGED project

\* six_hundred_cell(exact, backend) or grand_antiprism(exact, backend) is
\* entered
CallFourDimensional ==
    /\ pc = "idle"
    /\ \E f \in {"six_hundred_cell", "grand_antiprism"}, e \in BOOLEAN, b \in Backends :
            /\ fn' = f
            /\ exact' = e
            /\ kwbackend' = b
            /\ pc' = "domain"
    /\ UNCHANGED <<kwring, size, base_ring, g, points, group, verts, out, err,
                   raised_at, m, caught, hull_calls, zsp_calls, project>>

\* the coordinates of the generators of the calls of parallelotope
GenCoords == {Int2Num(0), Int2Num(1), Num(0, 1, 1, 2)}

\* the generators of the doctests of parallelotope, lines 1938 and 1945
DoctestGenerators ==
    { << <<Int2Num(1), Int2Num(0)>>, <<Int2Num(0), Int2Num(1)>> >>,
      << <<Int2Num(1), Num(0, 1, 1, 2)>>, <<Int2Num(1), Int2Num(-1)>> >> }

\* parallelotope(generators, backend) is entered, with generators of
\* dimension 2
CallParallelotope ==
    /\ pc = "idle"
    /\ \E b \in Backends :
         /\ kwbackend' = b
         /\ \/ \E k \in 1..MaxGens :
                \E gens \in [1..k -> [1..2 -> GenCoords]] : points' = gens
            \/ \E gens \in DoctestGenerators : points' = gens
    /\ fn' = "parallelotope"
    /\ pc' = "par"
    /\ UNCHANGED <<exact, kwring, size, base_ring, g, group, m, verts, out, err,
                   raised_at, caught, hull_calls, zsp_calls, project>>

\* parallelotope, lines 1951-1958: the ring R and the list par
BuildParallelotope ==
    /\ pc = "par"
    /\ base_ring' = parallelotope_R(points)
    /\ verts' = parallelotope_par(points)
    /\ pc' = "assemble"
    /\ UNCHANGED <<fn, exact, kwring, kwbackend, size, g, points, group, m, out,
                   err, raised_at, caught, hull_calls, zsp_calls, project>>

\* the recipes with an argument project
ProjectRecipes == {"simplex", "hypersimplex", "permutahedron"}

\* simplex(dim, project, base_ring, backend), hypersimplex(dim, k, project,
\* backend) or permutahedron(n, project, backend) is entered; with project
\* the points have a dimension for which zero_sum_projection has a row
CallProjectRecipe ==
    /\ pc = "idle"
    /\ \E pr \in BOOLEAN, b \in Backends :
         /\ project' = pr
         /\ kwbackend' = b
         /\ \/ \E dim \in 1..(MaxDim - 1), kw \in {None, AA} :
                  /\ fn' = "simplex"
                  /\ size' = <<dim>>
                  /\ kwring' = kw
                  /\ base_ring' = kw
            \/ \E dim \in 2..MaxDim :
                \E k \in 0..dim :
                  /\ fn' = "hypersimplex"
                  /\ size' = <<dim, k>>
                  /\ UNCHANGED <<kwring, base_ring>>
            \/ \E n \in 1..MaxN :
                  /\ pr => n >= 2
                  /\ fn' = "permutahedron"
                  /\ size' = <<n>>
                  /\ UNCHANGED <<kwring, base_ring>>
    /\ pc' = "points"
    /\ UNCHANGED <<exact, g, points, group, m, verts, out, err, raised_at,
                   caught, hull_calls, zsp_calls>>

\* simplex line 359, hypersimplex line 1767, permutahedron line 1824: the
\* integer points of the recipe
BuildPoints ==
    /\ pc = "points"
    /\ \E pts \in {CASE fn = "simplex" -> simplex_verts(size[1])
                    [] fn = "hypersimplex" -> hypersimplex_verts(size[1], size[2])
                    [] fn = "permutahedron" -> permutahedron_verts(size[1])} :
         /\ points' = pts
         /\ IF project
            THEN /\ pc' = "project"
                 /\ UNCHANGED verts
            ELSE /\ verts' = [k \in 1..Len(pts) |-> vector(ZZ, pts[k])]
                 /\ pc' = "assemble"
    /\ UNCHANGED <<fn, exact, kwring, kwbackend, size, base_ring, g, group, m,
                   out, err, raised_at, caught, hull_calls, zsp_calls, project>>

\* simplex line 362, hypersimplex line 1768, permutahedron line 1825:
\* verts = project_points(*verts), simplex alone passing its base_ring
ProjectVertices ==
    /\ pc = "project"
    /\ m' = project_points_m(points, kwring)
    /\ zsp_calls' = zsp_calls + 1
    /\ verts' = project_points(points, kwring)
    /\ pc' = "assemble"
    /\ UNCHANGED <<fn, exact, kwring, kwbackend, size, base_ring, g, points,
                   group, out, err, raised_at, caught, hull_calls, project>>

\* small_rhombicuboctahedron or great_rhombicuboctahedron (exact,
\* base_ring, backend) is entered, with a ring that has the square root of 2
CallRhombicuboctahedron ==
    /\ pc = "idle"
    /\ \E f \in {"small_rhombicuboctahedron", "great_rhombicuboctahedron"},
          e \in BOOLEAN, kw \in {None, K2, AA, RDF}, b \in Backends :
            /\ fn' = f
            /\ exact' = e
            /\ kwring' = kw
            /\ base_ring' = kw
            /\ kwbackend' = b
            /\ pc' = "domain"
    /\ UNCHANGED <<size, g, points, group, verts, out, err, raised_at, m,
                   caught, hull_calls, zsp_calls>>
    /\ UNCHANGED project

\* icosidodecahedron(exact, backend) is entered
CallIcosidodecahedron ==
    /\ pc = "idle"
    /\ \E e \in BOOLEAN, b \in Backends :
            /\ fn' = "icosidodecahedron"
            /\ exact' = e
            /\ kwbackend' = b
            /\ pc' = "domain"
    /\ UNCHANGED <<kwring, size, base_ring, g, points, group, verts, out, err,
                   raised_at, m, caught, hull_calls, zsp_calls>>
    /\ UNCHANGED project

\* the numbers of vertices regular_polygon is called with
PolygonN == {2, 3, 4, 6}

\* regular_polygon(n, exact, base_ring, backend) is entered
CallRegularPolygon ==
    /\ pc = "idle"
    /\ \E n \in PolygonN, e \in BOOLEAN, kw \in {None, QQ, AA, RDF}, b \in Backends :
            /\ fn' = "regular_polygon"
            /\ size' = <<n>>
            /\ exact' = e
            /\ kwring' = kw
            /\ base_ring' = kw
            /\ kwbackend' = b
            /\ pc' = "check"
    /\ UNCHANGED <<g, points, group, m, verts, out, err, raised_at, caught,
                   hull_calls, zsp_calls>>
    /\ UNCHANGED project

\* a variant that refuses n <= 1 only
CheckSize_allows_two ==
    /\ pc = "check"
    /\ IF size[1] <= 1
       THEN Raise("ValueError")
       ELSE /\ pc' = "domain"
            /\ UNCHANGED <<err, raised_at>>
    /\ UNCHANGED <<fn, exact, kwring, kwbackend, size, base_ring, g, points,
                   group, m, verts, out, caught, hull_calls, zsp_calls>>
    /\ UNCHANGED project

\* regular_polygon, lines 223-225: n <= 2 is refused
CheckSize ==
    /\ pc = "check"
    /\ IF size[1] <= 2
       THEN Raise("ValueError")
       ELSE /\ pc' = "domain"
            /\ UNCHANGED <<err, raised_at>>
    /\ UNCHANGED <<fn, exact, kwring, kwbackend, size, base_ring, g, points,
                   group, m, verts, out, caught, hull_calls, zsp_calls>>
    /\ UNCHANGED project

\* regular_polygon, lines 233-236: the vertices through pi(), sin() and
\* cos(); a ring without pi() raises AttributeError, which is caught
TrigVertices ==
    /\ pc = "trig"
    /\ IF HasPi(base_ring)
       THEN /\ verts' = regular_polygon_trig(size[1], base_ring)
            /\ pc' = "assemble"
            /\ UNCHANGED caught
       ELSE /\ caught' = Append(caught, "AttributeError")
            /\ pc' = "zeta"
            /\ UNCHANGED verts
    /\ UNCHANGED <<fn, exact, kwring, kwbackend, size, base_ring, g, points,
                   group, m, out, err, raised_at, hull_calls, zsp_calls>>
    /\ UNCHANGED project

\* regular_polygon, lines 237-238: the vertices from the powers of
\* QQbar.zeta(n), each coordinate converted into the ring
ZetaVertices ==
    /\ pc = "zeta"
    /\ \E v \in {regular_polygon_zeta(size[1])} :
       IF \A k \in 1..Len(v) : \A j \in 1..2 : Converts(v[k][j], base_ring)
       THEN /\ verts' = [k \in 1..Len(v) |-> [j \in 1..2 |-> Into(v[k][j], base_ring)]]
            /\ pc' = "assemble"
            /\ UNCHANGED <<err, raised_at>>
       ELSE /\ Raise("ValueError")
            /\ UNCHANGED verts
    /\ UNCHANGED <<fn, exact, kwring, kwbackend, size, base_ring, g, points,
                   group, m, out, caught, hull_calls, zsp_calls>>
    /\ UNCHANGED project

\* the ring is selected and the constant computed
SelectDomain ==
    /\ pc = "domain"
    /\ \E r \in {CASE fn = "truncated_cube" -> truncated_cube_domain(exact, kwring)
                  [] fn = "snub_cube" -> [err |-> "none", base_ring |-> RDF, g |-> snub_cube_z]
                  [] fn \in {"small_rhombicuboctahedron", "great_rhombicuboctahedron"} ->
                        rhombicuboctahedron_domain(exact, kwring)
                  [] fn = "icosidodecahedron" ->
                        [err |-> "none", base_ring |-> K5, g |-> icosidodecahedron_phi]
                  [] fn = "regular_polygon" ->
                        [err |-> "none", base_ring |-> regular_polygon_domain(exact, kwring), g |-> g]
                  [] fn \in {"six_hundred_cell", "grand_antiprism"} ->
                        six_hundred_cell_domain(exact)
                  [] OTHER -> icosahedron_domain(exact, kwring)} :
           IF r.err = "none"
           THEN /\ base_ring' = r.base_ring
                /\ g' = r.g
                /\ pc' = CASE fn = "snub_cube" -> "expand"
                            [] fn = "regular_polygon" -> "trig"
                            [] OTHER -> "seeds"
                /\ UNCHANGED <<err, raised_at>>
           ELSE /\ Raise(r.err)
                /\ UNCHANGED <<base_ring, g>>
    /\ UNCHANGED <<fn, exact, kwring, kwbackend, size, points, group, verts,
                   out, m>>
    /\ UNCHANGED <<caught, hull_calls, zsp_calls>>
    /\ UNCHANGED project

\* the seed list is built; truncated_cube and cyclic_polytope list their
\* vertices directly
BuildSeeds ==
    /\ pc = "seeds"
    /\ CASE fn \in {"icosahedron", "dodecahedron"} ->
              /\ points' = icosahedron_pts(base_ring, g)
              /\ pc' = "expand"
              /\ UNCHANGED verts
         [] fn = "truncated_octahedron" ->
              /\ points' = truncated_octahedron_v
              /\ pc' = "expand"
              /\ UNCHANGED verts
         [] fn = "truncated_cube" ->
              /\ points' = truncated_cube_v(g)
              /\ verts' = truncated_cube_v(g)
              /\ pc' = "assemble"
         [] fn = "icosidodecahedron_V2" ->
              /\ points' = icosidodecahedron_V2_pts(base_ring, g)
              /\ pc' = "expand"
              /\ UNCHANGED verts
         [] fn = "rhombicosidodecahedron" ->
              /\ points' = rhombicosidodecahedron_pts(base_ring, g)
              /\ pc' = "expand"
              /\ UNCHANGED verts
         [] fn = "truncated_dodecahedron" ->
              /\ points' = truncated_dodecahedron_pts(base_ring, g)
              /\ pc' = "expand"
              /\ UNCHANGED verts
         [] fn = "truncated_icosidodecahedron" ->
              /\ points' = truncated_icosidodecahedron_pts(base_ring, g)
              /\ pc' = "expand"
              /\ UNCHANGED verts
         [] fn = "small_rhombicuboctahedron" ->
              /\ points' = small_rhombicuboctahedron_verts(base_ring, g)
              /\ verts' = small_rhombicuboctahedron_verts(base_ring, g)
              /\ pc' = "assemble"
         [] fn = "great_rhombicuboctahedron" ->
              /\ points' = great_rhombicuboctahedron_verts(base_ring, g)
              /\ verts' = great_rhombicuboctahedron_verts(base_ring, g)
              /\ pc' = "assemble"
         [] fn = "icosidodecahedron" ->
              /\ points' = icosidodecahedron_gens(g)
              /\ pc' = "expand"
              /\ UNCHANGED verts
         [] fn = "six_hundred_cell" ->
              /\ points' = six_hundred_cell_pts(base_ring, g)
              /\ verts' = six_hundred_cell_verts(base_ring)
              /\ pc' = "expand"
         [] fn = "grand_antiprism" ->
              /\ points' = grand_antiprism_verts(base_ring, g)
              /\ verts' = grand_antiprism_verts(base_ring, g)
              /\ pc' = "assemble"
         [] fn = "Birkhoff_polytope" ->
              /\ points' = Birkhoff_polytope_verts(size[1])
              /\ verts' = Birkhoff_polytope_verts(size[1])
              /\ pc' = "assemble"
         [] fn = "cyclic_polytope" ->
              /\ points' = cyclic_polytope_verts(size[1], size[2])
              /\ verts' = cyclic_polytope_verts(size[1], size[2])
              /\ pc' = "assemble"
    /\ UNCHANGED <<fn, exact, kwring, kwbackend, size, base_ring, g, group,
                   out, err, raised_at, m>>
    /\ UNCHANGED <<caught, hull_calls, zsp_calls>>
    /\ UNCHANGED project

\* the seeds are expanded under the recipe's group into the vertex list
ExpandSeeds ==
    /\ pc = "expand"
    /\ CASE fn \in {"icosahedron", "dodecahedron"} ->
              /\ group' = A3
              /\ verts' = Expand(A3, points)
              /\ UNCHANGED points
         [] fn = "truncated_octahedron" ->
              /\ group' = S3
              /\ verts' = Expand(S3, points)
              /\ UNCHANGED points
         [] fn \in AliasedRecipes ->
              /\ points' = ExpandAliased(points)
              /\ verts' = ExpandAliased(points)
              /\ UNCHANGED group
         [] fn = "icosidodecahedron" ->
              /\ group' = A3
              /\ verts' = Expand(A3, points)
              /\ UNCHANGED points
         [] fn = "six_hundred_cell" ->
              /\ group' = A4
              /\ verts' = verts \o Expand(A4, points)
              /\ UNCHANGED points
         [] fn = "snub_cube" ->
              /\ group' = A3
              /\ points' = snub_cube_v(g)
              /\ verts' = ExpandSeedOuter(A3, snub_cube_v(g))
    /\ pc' = "assemble"
    /\ UNCHANGED <<fn, exact, kwring, kwbackend, size, base_ring, g, out,
                   err, raised_at, m>>
    /\ UNCHANGED <<caught, hull_calls, zsp_calls>>
    /\ UNCHANGED project

\* a variant that tries again in RDF when Polyhedron has raised
Assemble_retries_in_RDF ==
    /\ pc = "assemble"
    /\ \E vs \in {IF fn = "icosidodecahedron" /\ ~exact
                 THEN icosidodecahedron_RR(verts) ELSE verts} :
       \E P \in {CASE fn \in {"truncated_octahedron", "Birkhoff_polytope"} ->
                         Polyhedron(vs, ZZ, kwbackend)
                   [] fn = "snub_cube" -> Polyhedron(vs, base_ring, None)
                   [] fn \in {"small_rhombicuboctahedron", "hypersimplex", "permutahedron"} ->
                         Polyhedron(vs, None, kwbackend)
                   [] fn = "icosidodecahedron" ->
                         IF exact THEN Polyhedron(vs, K5, None)
                         ELSE Polyhedron(vs, None, kwbackend)
                   [] OTHER -> Polyhedron(vs, base_ring, kwbackend)} :
           /\ verts' = vs
           /\ IF P.err = "none"
              THEN /\ out' = P
                   /\ pc' = IF fn = "dodecahedron" THEN "polar" ELSE "returned"
                   /\ UNCHANGED <<err, raised_at>>
              ELSE /\ out' = Polyhedron(vs, RDF, kwbackend)
                   /\ pc' = "returned"
                   /\ UNCHANGED <<err, raised_at>>
    /\ UNCHANGED <<fn, exact, kwring, kwbackend, size, base_ring, g, points,
                   group, m>>
    /\ hull_calls' = hull_calls + 2
    /\ UNCHANGED <<caught, zsp_calls>>
    /\ UNCHANGED project

\* the vertex list is handed to Polyhedron
Assemble ==
    /\ pc = "assemble"
    /\ \E vs \in {IF fn = "icosidodecahedron" /\ ~exact
                 THEN icosidodecahedron_RR(verts) ELSE verts} :
       \E P \in {CASE fn \in {"truncated_octahedron", "Birkhoff_polytope"} ->
                         Polyhedron(vs, ZZ, kwbackend)
                   [] fn = "snub_cube" -> Polyhedron(vs, base_ring, None)
                   [] fn \in {"small_rhombicuboctahedron", "hypersimplex", "permutahedron"} ->
                         Polyhedron(vs, None, kwbackend)
                   [] fn = "icosidodecahedron" ->
                         IF exact THEN Polyhedron(vs, K5, None)
                         ELSE Polyhedron(vs, None, kwbackend)
                   [] OTHER -> Polyhedron(vs, base_ring, kwbackend)} :
           /\ verts' = vs
           /\ IF P.err = "none"
              THEN /\ out' = P
                   /\ pc' = IF fn = "dodecahedron" THEN "polar" ELSE "returned"
                   /\ UNCHANGED <<err, raised_at>>
              ELSE /\ Raise(P.err)
                   /\ UNCHANGED out
    /\ UNCHANGED <<fn, exact, kwring, kwbackend, size, base_ring, g, points,
                   group, m>>
    /\ hull_calls' = hull_calls + 1
    /\ UNCHANGED <<caught, zsp_calls>>
    /\ UNCHANGED project

\* dodecahedron returns the polar of the icosahedron
Polar ==
    /\ pc = "polar"
    /\ out' = [out EXCEPT !.polar = TRUE]
    /\ pc' = "returned"
    /\ UNCHANGED <<fn, exact, kwring, kwbackend, size, base_ring, g, points,
                   group, verts, err, raised_at, m>>
    /\ UNCHANGED <<caught, hull_calls, zsp_calls>>
    /\ UNCHANGED project

\* the caller has the result or the exception; the next call starts afresh
Return ==
    /\ pc \in {"returned", "raised"}
    /\ pc' = "idle"
    /\ fn' = "none"
    /\ exact' = TRUE
    /\ kwring' = None
    /\ kwbackend' = None
    /\ size' = <<>>
    /\ base_ring' = None
    /\ g' = Zero
    /\ points' = <<>>
    /\ group' = <<>>
    /\ m' = <<>>
    /\ verts' = <<>>
    /\ out' = <<>>
    /\ err' = "none"
    /\ raised_at' = "none"
    /\ caught' = <<>>
    /\ hull_calls' = 0
    /\ zsp_calls' = 0
    /\ project' = FALSE

Next ==
    \/ CallProjectPoints
    \/ ProjectPointsEntry
    \/ ProjectPointsApply
    \/ CallExpand
    \/ CallRecipe
    \/ CallFixedRecipe
    \/ CallCyclicPolytope
    \/ CallBirkhoffPolytope
    \/ CallParallelotope
    \/ BuildParallelotope
    \/ CallFourDimensional
    \/ CallProjectRecipe
    \/ BuildPoints
    \/ ProjectVertices
    \/ CallRegularPolygon
    \/ CallRhombicuboctahedron
    \/ CallIcosidodecahedron
    \/ CheckSize
    \/ TrigVertices
    \/ ZetaVertices
    \/ SelectDomain
    \/ BuildSeeds
    \/ ExpandSeeds
    \/ Assemble
    \/ Polar
    \/ Return

Spec == Init /\ [][Next]_vars

\* ============================================================ properties
Range(s) == {s[k] : k \in 1..Len(s)}

NoDuplicates(s) == \A i, j \in 1..Len(s) : s[i] = s[j] => i = j

\* the dot product of two lists of numbers of one length
Dot(X, Y) == SumNum([i \in 1..Len(X) |-> Mul(X[i], Y[i])])

\* the squared Euclidean distance of two lists of numbers
DistSq(X, Y) == Dot([i \in 1..Len(X) |-> Sub(X[i], Y[i])],
                    [i \in 1..Len(X) |-> Sub(X[i], Y[i])])

\* the squared Euclidean distance of two integer points
IntDistSq(p, q) == SumSeq([j \in 1..Len(p) |-> (p[j] - q[j]) * (p[j] - q[j])])

Projected == fn = "project_points" /\ pc = "returned"

C3_Coherence ==
    Projected =>
        \A k \in 1..Len(points) :
            LET d == Len(points[k]) - 1 IN
            d >= 2 =>
                LET w == project_points(<< SubSeq(points[k], 1, d) >>, kwring)[1]
                IN  /\ Len(w) = d - 1
                    /\ Len(out[k]) = d
                    /\ \A i \in 1..(d - 1) : out[k][i] = w[i]

\* a vector of dimension 4 was projected and its image has no zero
\* component among the shared ones
C3_Witness ==
    /\ Projected /\ kwring = AA
    /\ points = << <<-1, 2, 0, 2>> >>
    /\ \A i \in 1..2 : out[1][i] # Zero

\* the ring a project_points call computes in
ProjectionRing == IF kwring = None THEN RDF ELSE kwring

Expanded == fn = "expand" /\ pc = "returned"

\* a recipe that expands seeds under a group has built its vertex list
RecipeExpanded(fns) ==
    fn \in fns /\ pc \in {"assemble", "polar", "returned", "raised"}

IsIdentity(p) == \A j \in 1..Len(p) : p[j] = j

\* no element of G but the identity fixes a seed, and no element of G maps
\* a seed to another seed of the list
FreeSeeds(G, S) ==
    /\ \A i \in 1..Len(S), j \in 1..Len(G) :
          ~IsIdentity(G[j]) => Act(G[j], S[i]) # S[i]
    /\ \A i, k \in 1..Len(S), j \in 1..Len(G) :
          i # k => Act(G[j], S[i]) # S[k]

SeedOuterOrder ==
    \A i \in 1..Len(points), j \in 1..Len(group) :
        verts[(i - 1) * Len(group) + j] = Act(group[j], points[i])

\* the position of g_j(s_i) with the group element outer
GroupOuterOrder ==
    \A i \in 1..Len(points), j \in 1..Len(group) :
        verts[(j - 1) * Len(points) + i] = Act(group[j], points[i])

\* C5 as stated: in every recipe the image of seed i under element j is at
\* position i * k + j (counted from 0) of the vertex list, k the group order.
C5_Original ==
    RecipeExpanded({"icosahedron", "dodecahedron", "truncated_octahedron",
                    "snub_cube"}) =>
        /\ Len(verts) = Len(group) * Len(points)
        /\ SeedOuterOrder

\* C5 amended: icosahedron, dodecahedron and truncated_octahedron emit the
\* image of seed i under element j at position j * m + i (group element
\* outer, seed inner, m the number of seeds); snub_cube alone emits it at
\* i * k + j.
C5_Amended ==
    /\ RecipeExpanded({"icosahedron", "dodecahedron", "truncated_octahedron"}) =>
          /\ Len(verts) = Len(group) * Len(points)
          /\ GroupOuterOrder
    /\ RecipeExpanded({"snub_cube"}) =>
          /\ Len(verts) = Len(group) * Len(points)
          /\ SeedOuterOrder

\* icosahedron has expanded its 4 seeds: entry 5 is the first seed under
\* the second group element, not the second seed
C5_Witness ==
    /\ RecipeExpanded({"icosahedron"})
    /\ Len(points) = 4 /\ Len(group) = 3
    /\ verts[5] = Act(group[2], points[1])
    /\ verts[5] # Act(group[2], points[2])

\* the seed list [(1, 1, -1)]
Seed11m == << vector(ZZ, <<1, 1, -1>>) >>

OrbitOf11m ==
    {vector(ZZ, <<1, 1, -1>>), vector(ZZ, <<1, -1, 1>>), vector(ZZ, <<-1, 1, 1>>)}

C7_IdentityOnly ==
    (Expanded /\ group = IdOnly) => (verts = points /\ out = points)

\* two different seeds were expanded under the identity alone
C7_Witness ==
    /\ Expanded /\ group = IdOnly
    /\ Len(points) = 2 /\ points[1] # points[2]
    /\ points[1][1] # points[1][2]

Lacks(f, kw) ==
    \/ f \in {"icosahedron", "dodecahedron"} /\ kw \in {QQ, K2}
    \/ f = "truncated_cube" /\ kw \in {QQ, K5}

\* C9: a recipe that needs sqrt(5) (icosahedron, dodecahedron) or sqrt(2)
\* (truncated_cube), called with an explicit ring without that root, ends
\* in an error reported to the caller and never returns a polytope.
C9_DomainMismatch ==
    (Lacks(fn, kwring) /\ pc \in {"polar", "returned", "raised"}) =>
        (pc = "raised" /\ err = "TypeError" /\ out = <<>>)

\* truncated_cube was called with the quadratic field of sqrt(5) and failed
C9_Witness ==
    /\ fn = "truncated_cube" /\ kwring = K5
    /\ pc = "raised" /\ err = "TypeError"

\* C10: with an explicit ring that lacks the constant, no error is raised
\* while the ring is selected, the constant computed and the vertex list
\* built and expanded: the error is raised by the step that hands the list
\* to Polyhedron; and cyclic_polytope, which needs no root, returns a
\* polytope over the rational field.
C10_LazyFailure ==
    /\ Lacks(fn, kwring) =>
          /\ pc \in {"domain", "seeds", "expand", "assemble"} => err = "none"
          /\ pc = "assemble" => verts # <<>>
          /\ pc = "raised" => raised_at = "assemble"
    /\ (fn = "cyclic_polytope" /\ kwring = QQ /\ pc \in {"returned", "raised"}) =>
          /\ pc = "returned" /\ err = "none"
          /\ out.base_ring = QQ /\ Len(out.vertices) = size[2]

\* icosahedron over the rational field got as far as the expanded list of
\* 12 vertices and failed when it was handed to Polyhedron
C10_Witness ==
    /\ fn = "icosahedron" /\ kwring = QQ
    /\ pc = "raised" /\ raised_at = "assemble"
    /\ Len(verts) = 12 /\ g.b # 0

\* ------------------------------------------------------ domain selection
\* the recipe has selected its ring and computed its constant
DomainSelected == pc \in {"seeds", "expand", "assemble", "polar", "returned"}

ExactRecipes == {"icosahedron", "dodecahedron", "truncated_cube", "regular_polygon"}

\* the ring of the call in progress has been selected
RingSelected ==
    /\ fn \in ExactRecipes
    /\ pc \in {"seeds", "expand", "trig", "zeta", "assemble", "polar", "returned"}

\* every coordinate of the polytope is a floating-point number
AllFloat(P) ==
    \A k \in 1..Len(P.vertices) : \A j \in 1..Len(P.vertices[k]) : P.vertices[k][j].fl

C13_NoPoints ==
    (fn = "project_points" /\ points = <<>> /\ pc # "pp_entry") =>
        /\ pc = "returned" /\ out = <<>>
        /\ zsp_calls = 0 /\ m = <<>>
        /\ err = "none"

\* project_points(base_ring=QQ) with no point has returned
C13_Witness ==
    /\ fn = "project_points" /\ points = <<>> /\ kwring = QQ
    /\ pc = "returned" /\ out = <<>>

\* the doctest value, in units of 1/10000
C14_Expected == <<21213, -20412, -5774>>

\* C14: the projection of the single point (2, -1, 3, 2) is one vector of
\* 3 components, (3/sqrt(2), -5/sqrt(6), -2/sqrt(12)) exactly in AA and
\* (2.1213..., -2.0412..., -0.5773...) up to rounding in RDF.
C14_Doctest ==
    (Projected /\ points = << <<2, -1, 3, 2>> >>) =>
        /\ Len(out) = 1 /\ Len(out[1]) = 3
        /\ kwring = AA =>
              out[1] = << Div(Int2Num(3), Sqrt(Int2Num(2))),
                          Div(Int2Num(-5), Sqrt(Int2Num(6))),
                          Div(Int2Num(-2), Sqrt(Int2Num(12))) >>
        /\ kwring = None =>
              \A i \in 1..3 :
                  /\ out[1][i].fl
                  /\ Abs(out[1][i].a * 10000 - C14_Expected[i] * Scale) <= 3 * 10000

\* the doctest point was projected in RDF
C14_Witness ==
    /\ Projected /\ points = << <<2, -1, 3, 2>> >> /\ kwring = None
    /\ Len(out) = 1 /\ out[1][1].fl /\ out[1][1].a > 2 * Scale

\* the points of the call do not all have the dimension of the first
MixedDimensions == \E i \in 1..Len(points) : Len(points[i]) # Len(points[1])

\* C19: a call of project_points either returns one image per point, in
\* the order of the points, each of dimension d - 1, or raises and returns
\* nothing; with points of unequal dimensions it raises.
C19_NoPartialResult ==
    fn = "project_points" =>
        /\ pc = "returned" =>
              /\ Len(out) = Len(points)
              /\ \A i \in 1..Len(points) :
                    /\ Len(out[i]) = Len(points[1]) - 1
                    /\ out[i] = MatVec(m, vector(ProjectionRing, points[i]))
        /\ pc = "raised" => (out = <<>> /\ err = "TypeError")
        /\ (MixedDimensions /\ pc \in {"returned", "raised"}) => pc = "raised"

\* the second of two points had another dimension than the first: the
\* call raised after one product
C19_Witness ==
    /\ fn = "project_points" /\ pc = "raised"
    /\ Len(points) = 2 /\ MixedDimensions
    /\ Len(verts) = 1 /\ out = <<>>

\* C20: a call of project_points with points builds the projection matrix
\* once, for the dimension of the first point, and applies that matrix to
\* every point; base_ring None selects RDF for the matrix and the points.
C20_OneMatrix ==
    (fn = "project_points" /\ points # <<>> /\ pc \in {"pp_apply", "returned", "raised"}) =>
        /\ zsp_calls = 1
        /\ base_ring = ProjectionRing
        /\ m = ProjectionMatrix[Len(points[1])][ProjectionRing]
        /\ \A i \in 1..Len(verts) :
              verts[i] = MatVec(m, vector(ProjectionRing, points[i]))
        /\ kwring = None =>
              /\ base_ring = RDF
              /\ \A i \in 1..Len(m) : \A j \in 1..Len(m[i]) : m[i][j].fl
              /\ \A i \in 1..Len(verts) : \A j \in 1..Len(verts[i]) : verts[i][j].fl

\* two points were projected in RDF by one matrix
C20_Witness ==
    /\ fn = "project_points" /\ pc = "returned" /\ kwring = None
    /\ Len(points) = 2 /\ Len(out) = 2 /\ zsp_calls = 1
    /\ points[1] # points[2]

\* ------------------------------------------------------------- assembly
\* the recipes with an argument backend
BackendRecipes ==
    {"icosahedron", "dodecahedron", "truncated_cube", "truncated_octahedron",
     "snub_cube", "cyclic_polytope", "regular_polygon",
     "small_rhombicuboctahedron", "great_rhombicuboctahedron", "icosidodecahedron"}

\* the recipes that select their ring from exact / base_ring
DomainRecipes ==
    {"icosahedron", "dodecahedron", "truncated_cube", "regular_polygon",
     "small_rhombicuboctahedron", "great_rhombicuboctahedron", "icosidodecahedron"}

\* Polyhedron was called and has built the polytope
Assembled == pc \in {"polar", "returned"}

\* C15: the polytope of a recipe with an argument backend is built by a
\* call of Polyhedron that was given the backend of the caller.
C15_BackendPassed ==
    (fn \in BackendRecipes /\ Assembled) => out.backend = kwbackend

\* C16: the polytope of a recipe that selects its ring is built by a call
\* of Polyhedron that was given that ring.
C16_DomainPassed ==
    (fn \in DomainRecipes /\ Assembled) => out.base_ring = base_ring

\* C17 as stated: no exception raised inside a call is caught and
\* followed by another computation of the coordinates, an exception that
\* ends the call leaves no result, and Polyhedron is called at most once.
C17_Original ==
    /\ caught = <<>>
    /\ hull_calls <= 1
    /\ pc = "raised" => (err # "none" /\ out = <<>>)

\* C17 amended: regular_polygon catches the AttributeError of a ring
\* without pi() (AA, QQ) and computes the vertices from the powers of
\* QQbar.zeta(n) instead; no other exception is caught in any recipe, an
\* exception of the fallback or of Polyhedron ends the call with no result,
\* and Polyhedron is called at most once in a call.
C17_Amended ==
    /\ fn # "regular_polygon" => caught = <<>>
    /\ fn = "regular_polygon" =>
          /\ caught \in {<<>>, <<"AttributeError">>}
          /\ caught # <<>> <=>
                (pc \in {"zeta", "assemble", "returned", "raised"}
                    /\ raised_at # "check" /\ ~HasPi(base_ring))
    /\ hull_calls <= 1
    /\ pc \in {"polar", "returned"} /\ fn \notin {"project_points", "expand"} => hull_calls = 1
    /\ pc = "raised" =>
          /\ err # "none" /\ out = <<>>
          /\ hull_calls = (IF raised_at = "assemble" THEN 1 ELSE 0)

\* regular_polygon over AA fell back to the roots of unity and returned
C17_Witness ==
    /\ fn = "regular_polygon" /\ base_ring = AA
    /\ caught = <<"AttributeError">>
    /\ pc = "returned" /\ hull_calls = 1 /\ Len(out.vertices) = size[1]

\* C18: the expansion leaves the seed list as it was: once the seeds are
\* built, the step that builds the vertex list does not change them.
C18_SeedsKept ==
    [][(pc = "expand" /\ points # <<>>) => points' = points]_vars

\* ------------------------------------------------------- regular_polygon
\* the vertex of index i (counted from 0) of the polygon with n vertices
PolygonVertex(n, i) ==
    << Into(Sin12((12 \div n) * i), base_ring), Into(Cos12((12 \div n) * i), base_ring) >>

\* C21: regular_polygon(n) with n <= 2 raises ValueError at the test of n,
\* with no ring selected, no vertex computed, no exception caught and
\* Polyhedron not called; with n >= 3 the list handed to Polyhedron has n
\* entries, entry k the vertex of index k - 1.
C21_PolygonSize ==
    fn = "regular_polygon" =>
        /\ (size[1] <= 2 /\ pc # "check") =>
              /\ pc = "raised" /\ err = "ValueError" /\ raised_at = "check"
              /\ base_ring = kwring /\ verts = <<>> /\ out = <<>>
              /\ caught = <<>> /\ hull_calls = 0
        /\ (size[1] >= 3 /\ pc \in {"assemble", "returned"}) =>
              /\ Len(verts) = size[1]
              /\ \A k \in 1..size[1] : verts[k] = PolygonVertex(size[1], k - 1)
        /\ pc = "returned" =>
              /\ hull_calls = 1
              /\ Len(out.vertices) = size[1]

\* regular_polygon(6) has returned a hexagon
C21_Witness ==
    /\ fn = "regular_polygon" /\ size = <<6>> /\ pc = "returned"
    /\ Len(out.vertices) = 6 /\ NoDuplicates(out.vertices)

\* regular_polygon(2) was refused
C21_WitnessRefused ==
    /\ fn = "regular_polygon" /\ size = <<2>> /\ pc = "raised"
    /\ err = "ValueError" /\ raised_at = "check"

\* ------------------------------------------------- even permutations
\* the number of seeds each recipe writes into pts
SeedCount ==
    [f \in AliasedRecipes |->
        CASE f = "icosidodecahedron_V2" -> 10
          [] f = "truncated_icosidodecahedron" -> 40
          [] OTHER -> 20]

\* C22: in the recipes that list the even permutations of their seeds, the
\* list handed to Polyhedron has 3 * |pts| entries (30, 60, 60, 120), the
\* three cyclic permutations of every seed, and no two entries are equal.
C22_EvenPermutations ==
    (fn \in AliasedRecipes /\ pc \in {"assemble", "returned", "raised"}) =>
        /\ Len(verts) = 3 * SeedCount[fn]
        /\ verts = Expand(A3, SubSeq(points, 1, SeedCount[fn]))
        /\ NoDuplicates(verts)

\* -------------------------------------------------------------- snub_cube
\* the absolute value of a number without irrational part, as an RDF number
NumAbs(x) == ToFlt(IF x.a < 0 THEN Neg(x) ELSE x)

\* the position of the coordinate of w of absolute value x
PositionOf(w, x) == CHOOSE j \in 1..3 : NumAbs(w[j]) = NumAbs(x)

\* in w the magnitude z comes cyclically right after the magnitude 1
EvenArrangement(w, z) == (PositionOf(w, z) - PositionOf(w, Int2Num(1)) + 3) % 3 = 1

\* the product of the signs of the coordinates of w
SignProduct(w) == Sign(w[1].a) * Sign(w[2].a) * Sign(w[3].a)

\* the list of w has 24 entries, no two equal; every entry has the
\* magnitudes 1, z, z^2, in a cyclic arrangement of (1, z, z^2) when the
\* product of its signs is -1 and of (z, 1, z^2) when it is 1
SnubVertices(w, z) ==
    /\ Len(w) = 24
    /\ NoDuplicates(w)
    /\ \A k \in 1..24 :
          /\ {NumAbs(w[k][j]) : j \in 1..3} = {NumAbs(Int2Num(1)), NumAbs(z), Mul(z, z)}
          /\ EvenArrangement(w[k], z) <=> SignProduct(w[k]) = -1

\* magnitudes z other than the constant of snub_cube, with 1, z, z^2 distinct
SampleZ == {Flt(Scale \div 4), Flt(2 * Scale), Flt(3 * Scale)}

\* C23: the list snub_cube hands to Polyhedron has 24 entries, pairwise
\* distinct: for the 8 sign triples the even permutations of
\* (e, f*z, g*z^2) when e*f*g = -1 and of (f*z, e, g*z^2) otherwise; so it
\* is for every z with 1, z, z^2 distinct and not zero.
C23_SnubCube ==
    (fn = "snub_cube" /\ pc \in {"assemble", "returned"}) =>
        /\ g.fl /\ g.a > 0 /\ g.a # Scale
        /\ Len(points) = 8
        /\ SnubVertices(verts, g)
        /\ \A z \in SampleZ : SnubVertices(ExpandSeedOuter(A3, snub_cube_v(z)), z)

\* snub_cube has returned; entries of both arrangements are in its list
C23_Witness ==
    /\ fn = "snub_cube" /\ pc = "returned"
    /\ Len(out.vertices) = 24
    /\ \E i, j \in 1..24 : EvenArrangement(verts[i], g) /\ ~EvenArrangement(verts[j], g)

\* ------------------------------------------------------ literal duplicates
\* the call has built its vertex list
ListBuilt == pc \in {"assemble", "polar", "returned", "raised"}

\* C24: icosahedron (and dodecahedron, built from it) expands 4 seeds
\* (0, s1/2, s2*g/2) into 12 pairwise distinct vertices, over exact rings
\* and over RDF alike, and the polytope gets 12 distinct vertices;
\* icosidodecahedron expands 10 seeds into 30 pairwise distinct vertices,
\* before and after the conversion to floating point.
C24_NoLiteralDuplicate ==
    /\ (fn \in {"icosahedron", "dodecahedron"} /\ ListBuilt) =>
          /\ Len(points) = 4
          /\ \A k \in 1..4 : points[k][1] = Coerce(base_ring, 0)
          /\ Len(verts) = 12
          /\ NoDuplicates(verts)
          /\ Assembled => (Len(out.vertices) = 12 /\ NoDuplicates(out.vertices))
    /\ (fn = "icosidodecahedron" /\ ListBuilt) =>
          /\ Len(points) = 10
          /\ Len(verts) = 30
          /\ NoDuplicates(verts)
          /\ Assembled => (Len(out.vertices) = 30 /\ NoDuplicates(out.vertices))

\* icosahedron(exact=False) has returned 12 distinct floating-point vertices
C24_Witness ==
    /\ fn = "icosahedron" /\ ~exact /\ kwring = None /\ pc = "returned"
    /\ Len(out.vertices) = 12 /\ NoDuplicates(out.vertices)
    /\ \A k \in 1..12 : \A j \in 1..3 : out.vertices[k][j].fl

\* icosidodecahedron(exact=False) has returned 30 distinct vertices
C24_WitnessIcosidodecahedron ==
    /\ fn = "icosidodecahedron" /\ ~exact /\ pc = "returned"
    /\ Len(out.vertices) = 30 /\ out.vertices[1][1].fl

\* --------------------------------------------------- truncated_octahedron
\* the integer vectors with one coordinate 0, one of absolute value 1 and
\* one of absolute value 2
PermutationsOf012 ==
    {[j \in 1..3 |-> Int2Num(c[j])] :
        c \in {c \in [1..3 -> -2..2] : {Abs(c[j]) : j \in 1..3} = {0, 1, 2}}}

\* C25: the vertex list of truncated_octahedron has 24 entries: each of the
\* 24 vectors with one coordinate 0, one of absolute value 1 and one of
\* absolute value 2 exactly once, and nothing else; Polyhedron gets them
\* over ZZ.
C25_TruncatedOctahedron ==
    (fn = "truncated_octahedron" /\ ListBuilt) =>
        /\ Len(verts) = 24
        /\ Cardinality(PermutationsOf012) = 24
        /\ Range(verts) = PermutationsOf012
        /\ \A w \in PermutationsOf012 : Cardinality({k \in 1..24 : verts[k] = w}) = 1
        /\ pc = "returned" =>
              (out.base_ring = ZZ /\ Range(out.vertices) = PermutationsOf012)

\* truncated_octahedron has returned; (2, 0, -1) is among its vertices
C25_Witness ==
    /\ fn = "truncated_octahedron" /\ pc = "returned"
    /\ Len(out.vertices) = 24
    /\ \E k \in 1..24 : out.vertices[k] = <<Int2Num(2), Int2Num(0), Int2Num(-1)>>

\* ------------------------------------------------------ Birkhoff_polytope
\* the positions of the ones of a list of numbers
Ones(w) == {q \in 1..Len(w) : w[q] = Int2Num(1)}

\* C26: Birkhoff_polytope(n) lists n! vectors, pairwise distinct, each of
\* length n^2 with entries 0 and 1, n of them 1: one in every block of n
\* consecutive entries and one in every residue class of the positions
\* modulo n; Polyhedron gets them over ZZ.
C26_Birkhoff ==
    (fn = "Birkhoff_polytope" /\ ListBuilt) =>
        LET n == size[1] IN
        /\ Len(verts) = Factorial(n)
        /\ NoDuplicates(verts)
        /\ \A k \in 1..Len(verts) :
              /\ Len(verts[k]) = n * n
              /\ \A q \in 1..(n * n) : verts[k][q] \in {Int2Num(0), Int2Num(1)}
              /\ Cardinality(Ones(verts[k])) = n
              /\ \A j \in 0..(n - 1) :
                    Cardinality({q \in Ones(verts[k]) : (q - 1) \div n = j}) = 1
              /\ \A i \in 0..(n - 1) :
                    Cardinality({q \in Ones(verts[k]) : (q - 1) % n = i}) = 1
        /\ pc = "returned" =>
              (out.base_ring = ZZ /\ out.vertices = verts /\ out.backend = kwbackend)

\* Birkhoff_polytope(3) has returned its 6 vertices of length 9
C26_Witness ==
    /\ fn = "Birkhoff_polytope" /\ size = <<3>> /\ pc = "returned"
    /\ Len(out.vertices) = 6 /\ Len(out.vertices[6]) = 9
    /\ Ones(out.vertices[6]) = {3, 5, 7}

\* ------------------------------------------------- recipes that project
\* the points of the recipe are built
PointsBuilt == fn \in ProjectRecipes /\ pc \in {"project", "assemble", "returned", "raised"}

Binomial(n, k) == Factorial(n) \div (Factorial(k) * Factorial(n - k))

\* the largest difference, in units of 1/Scale, between a squared distance
\* of two images computed in RDF and the squared distance of the points
DistanceTolerance == Scale \div 50

\* C27: the points a recipe passes to project_points have one coordinate
\* sum: simplex(dim) passes the dim+1 standard basis vectors (sum 1),
\* hypersimplex(dim, k) the C(dim, k) distinct 0/1 vectors with k ones
\* (sum k), permutahedron(n) the n! permutations of 1..n (sum n(n+1)/2);
\* so the images have the squared distances of the points, exactly over AA
\* and up to rounding over RDF.
C27_EqualSums ==
    PointsBuilt =>
        /\ EqualSums(points)
        /\ NoDuplicates(points)
        /\ fn = "simplex" =>
              /\ Len(points) = size[1] + 1
              /\ \A i \in 1..Len(points) :
                    /\ Len(points[i]) = size[1] + 1
                    /\ \A j \in 1..Len(points[i]) : points[i][j] = (IF j = i THEN 1 ELSE 0)
                    /\ SumSeq(points[i]) = 1
        /\ fn = "hypersimplex" =>
              /\ Len(points) = Binomial(size[1], size[2])
              /\ \A i \in 1..Len(points) :
                    /\ Len(points[i]) = size[1]
                    /\ \A j \in 1..size[1] : points[i][j] \in {0, 1}
                    /\ SumSeq(points[i]) = size[2]
        /\ fn = "permutahedron" =>
              /\ Len(points) = Factorial(size[1])
              /\ \A i \in 1..Len(points) :
                    /\ Len(points[i]) = size[1]
                    /\ Range(points[i]) = 1..size[1]
                    /\ 2 * SumSeq(points[i]) = size[1] * (size[1] + 1)
        /\ (project /\ pc \in {"assemble", "returned"}) =>
              /\ Len(verts) = Len(points)
              /\ \A i, j \in 1..Len(points) :
                    IF kwring = AA
                    THEN DistSq(verts[i], verts[j])
                            = Int2Num(IntDistSq(points[i], points[j]))
                    ELSE Abs(DistSq(verts[i], verts[j]).a
                                - IntDistSq(points[i], points[j]) * Scale)
                            <= DistanceTolerance

\* permutahedron(3, project=True) has returned 6 vertices of dimension 2
C27_Witness ==
    /\ fn = "permutahedron" /\ size = <<3>> /\ project /\ pc = "returned"
    /\ Len(out.vertices) = 6 /\ Len(out.vertices[1]) = 2
    /\ zsp_calls = 1 /\ hull_calls = 1

\* simplex(3, project=True, base_ring=AA) has returned
C27_WitnessSimplex ==
    /\ fn = "simplex" /\ size = <<3>> /\ project /\ kwring = AA /\ pc = "returned"
    /\ Len(out.vertices) = 4 /\ out.base_ring = AA

\* hypersimplex(4, 2, project=True) has returned its 6 vertices
C27_WitnessHypersimplex ==
    /\ fn = "hypersimplex" /\ size = <<4, 2>> /\ project /\ pc = "returned"
    /\ Len(out.vertices) = 6

\* ------------------------------------------------------- six_hundred_cell
\* the even permutations of 4 items, as functions
EvenPermutations4 ==
    {p \in [1..4 -> 1..4] : {p[j] : j \in 1..4} = 1..4 /\ Inversions(p) % 2 = 0}

\* the images of the seed list S under the even permutations of 4 items
EvenImages(S) == {[j \in 1..4 |-> S[k][p[j]]] : k \in 1..Len(S), p \in EvenPermutations4}

\* C28: six_hundred_cell hands Polyhedron 120 vectors of dimension 4,
\* pairwise distinct: the 16 vectors (+-1/2)^4, the 8 signed unit basis
\* vectors and the 96 images of the 8 seeds (+-1/2, +-g/2, +-1/(2g), 0)
\* under the 12 even permutations of the coordinates.
C28_SixHundredCell ==
    (fn = "six_hundred_cell" /\ pc \in {"assemble", "returned"}) =>
        /\ Len(verts) = 120
        /\ NoDuplicates(verts)
        /\ \A k \in 1..120 : Len(verts[k]) = 4
        /\ \A k \in 1..16 : \A j \in 1..4 :
              NumAbs(verts[k][j]) = NumAbs(Div(Coerce(base_ring, 1), Coerce(base_ring, 2)))
        /\ \A k \in 17..24 :
              /\ Cardinality({j \in 1..4 : verts[k][j] # Coerce(base_ring, 0)}) = 1
              /\ \A j \in 1..4 : NumAbs(verts[k][j]) \in {NumAbs(Int2Num(0)), NumAbs(Int2Num(1))}
        /\ Len(points) = 8 /\ Cardinality(EvenPermutations4) = 12
        /\ Range(SubSeq(verts, 25, 120)) = EvenImages(points)
        /\ Cardinality(EvenImages(points)) = 96
        /\ pc = "returned" => (Len(out.vertices) = 120 /\ NoDuplicates(out.vertices))

\* six_hundred_cell() has returned 120 floating-point vertices
C28_Witness ==
    /\ fn = "six_hundred_cell" /\ ~exact /\ pc = "returned"
    /\ Len(out.vertices) = 120 /\ out.base_ring = RDF
    /\ out.vertices[120][1].fl

\* six_hundred_cell(exact=True) has returned 120 exact vertices
C28_WitnessExact ==
    /\ fn = "six_hundred_cell" /\ exact /\ pc = "returned"
    /\ Len(out.vertices) = 120 /\ out.base_ring = K5

\* ------------------------------------------------------- grand_antiprism
\* the list six_hundred_cell builds over the ring and the constant of the call
SixHundredCellList == six_hundred_cell_verts(base_ring) \o Expand(A4, six_hundred_cell_pts(base_ring, g))

\* C29 as stated: grand_antiprism hands Polyhedron 100 vectors of
\* dimension 4, pairwise distinct, each of them in the list six_hundred_cell
\* builds over the same ring.
C29_Original ==
    (fn = "grand_antiprism" /\ pc \in {"assemble", "returned"}) =>
        /\ Len(verts) = 100
        /\ NoDuplicates(verts)
        /\ \A k \in 1..100 : Len(verts[k]) = 4
        /\ Range(verts) \subseteq Range(SixHundredCellList)

\* the vector w with its first two coordinates exchanged
Mirror(w) == <<w[2], w[1], w[3], w[4]>>

\* C29 amended: grand_antiprism hands Polyhedron 100 vectors of dimension
\* 4, pairwise distinct; the first 20 (the 16 vectors (+-1/2)^4 and the 4
\* signed basis vectors of the last two coordinates) are in the list
\* six_hundred_cell builds over the same ring and the other 80 are not:
\* they are odd arrangements of (+-1/2, +-g/2, +-1/(2g), 0), so that every
\* one of the 100 is in that list once its first two coordinates are
\* exchanged.
C29_Amended ==
    (fn = "grand_antiprism" /\ pc \in {"assemble", "returned"}) =>
        /\ Len(verts) = 100
        /\ NoDuplicates(verts)
        /\ \A k \in 1..100 : Len(verts[k]) = 4
        /\ {k \in 1..100 : verts[k] \in Range(SixHundredCellList)} = 1..20
        /\ \A k \in 1..100 : Mirror(verts[k]) \in Range(SixHundredCellList)
        /\ pc = "returned" => (Len(out.vertices) = 100 /\ NoDuplicates(out.vertices))

\* grand_antiprism(exact=True) has returned; its vertex 21 is not in the
\* list of six_hundred_cell, its mirror image is
C29_Witness ==
    /\ fn = "grand_antiprism" /\ exact /\ pc = "returned"
    /\ Len(out.vertices) = 100
    /\ verts[21] \notin Range(SixHundredCellList)
    /\ Mirror(verts[21]) \in Range(SixHundredCellList)

\* grand_antiprism(exact=False) has returned 100 floating-point vertices
C29_WitnessFloat ==
    /\ fn = "grand_antiprism" /\ ~exact /\ pc = "returned"
    /\ Len(out.vertices) = 100 /\ out.vertices[100][1].fl

\* --------------------------------------------------------- parallelotope
\* the sum of the generators of gens whose positions are in S
RECURSIVE SubsetSum(_, _)
SubsetSum(gens, S) ==
    IF S = {} THEN [j \in 1..Len(gens[1]) |-> Int2Num(0)]
    ELSE LET i == CHOOSE i \in S : \A k \in S : i <= k
         IN  VecAdd(gens[i], SubsetSum(gens, S \ {i}))

\* the number of subsets of k positions with at most j elements
UpToSize == [k \in 0..(MaxGens + 1) |-> [j \in 0..(MaxGens + 1) |->
                Cardinality({S \in SUBSET (1..k) : Cardinality(S) <= j})]]

\* the subsets of the positions 1..k, each with the sum of its generators
SubsetSums(gens, k) == {<<S, SubsetSum(gens, S)>> : S \in SUBSET (1..k)}

\* the entries 1..n of the list w whose value is v, and the subsets of at
\* most j positions whose sum, in the table sums, is v, are as many
SameCount(w, n, sums, j, v) ==
    Cardinality({i \in 1..n : w[i] = v})
        = Cardinality({p \in sums : Cardinality(p[1]) <= j /\ p[2] = v})

\* C30: parallelotope with k generators hands Polyhedron 2^k points: the
\* zero vector first, then the sums of the subsets of one position, then of
\* two, and so on, every vector as many times as there are subsets with
\* that sum; the ring handed over is the common ring of the generators.
C30_Parallelotope ==
    (fn = "parallelotope" /\ pc \in {"assemble", "returned"}) =>
        \E k \in {Len(points)} :
        \E sums \in {SubsetSums(points, k)} :
        /\ Len(verts) = Pow(2, k)
        /\ <<{}, verts[1]>> \in sums
        /\ \A j \in 0..k : \A v \in Range(verts) :
              SameCount(verts, UpToSize[k][j], sums, j, v)
        /\ \A p \in sums : p[2] \in Range(verts)
        /\ base_ring = (IF \E i \in 1..k : \E j \in 1..2 : points[i][j].b # 0
                        THEN K2 ELSE ZZ)
        /\ pc = "returned" =>
              (out.base_ring = base_ring /\ out.vertices = verts /\ out.backend = kwbackend)

\* the doctest parallelotope([(1, sqrt2), (1, -1)]) has returned its 4
\* points over QuadraticField(2)
C30_Witness ==
    /\ fn = "parallelotope" /\ pc = "returned"
    /\ points = << <<Int2Num(1), Num(0, 1, 1, 2)>>, <<Int2Num(1), Int2Num(-1)>> >>
    /\ out.base_ring = K2 /\ Len(out.vertices) = 4
    /\ out.vertices[4] = <<Int2Num(2), Num(-1, 1, 1, 2)>>

\* three generators, two of them equal, have given 8 points
C30_WitnessRepeated ==
    /\ fn = "parallelotope" /\ pc = "returned"
    /\ Len(points) = 3 /\ points[1] = points[2] /\ points[1] # points[3]
    /\ Len(out.vertices) = 8 /\ ~NoDuplicates(out.vertices)

====
